---- MODULE Spec2Model ----
(***************************************************************************)
(* Monitoring session engine of browsermonitor (puppeteer-monitor):        *)
(* join mode and open mode sessions, the LogBuffer, the keyboard and HTTP  *)
(* control plane and the shutdown path.                                    *)
(*                                                                         *)
(* One event loop runs every handler to completion or to its next await.   *)
(* Each action below is one handler, or the part of a handler between two  *)
(* awaits.                                                                 *)
(***************************************************************************)
EXTENDS Integers, Sequences, FiniteSets, TLC

(***************************************************************************)
(* Bounds of the model.                                                    *)
(***************************************************************************)
NumPages == 2        \* tabs the browser can hold
MaxEvents == 1       \* console events recorded in one log
MaxRequests == 2     \* request-starts between two clears
MaxSwitches == 1     \* tab switches recorded in one log
MaxIssued == 2       \* request-starts in one session
MaxCommands == 2     \* keyboard commands counted by maybeShowHelp
MaxUpdates == 2      \* response/failure updates of one exchange
MaxConns == 1        \* HTTP connections a client keeps open
SessionRequests == 1 \* request-starts in a run of the session specification
MaxPending == 1      \* handlers suspended at an await at the same time
MaxOverlap == 2      \* the same, where a dump overlaps another command
NumChromes == 2      \* browser instances on the host
NumPorts == 2        \* control ports from START_PORT on

HELP_INTERVAL == 5
ID_WIDTH == 3
START_PORT == 9222
MAX_RETRIES == 5
RETRY_DELAY == 1500
MAX_PORT == 9299

MAX_POLLS == 10      \* for (let i = 0; i < 10; i++)

POLL_DELAY == 500    \* Start-Sleep -Milliseconds 500

PORT_RANGE == 100    \* for (let port = startPort; port < startPort + 100; port++)

Pages == 1..NumPages
NoPage == 0

VARIABLES
    mode,             \* "join" | "open"
    lazyMode,         \* !realtime
    hardTimeout,      \* TRUE when options.hardTimeout > 0
    launchedOnWindows,\* open mode: Chrome was started on the Windows side
    pageUrl,          \* page -> kind of its URL
    openPages,        \* pages the browser holds, browser.pages() order = id order
    browser,          \* TRUE when the browser handle is set
    mainPc,           \* position of runJoinMode / runOpenMode
    keyboard,         \* TRUE after setupKeyboardInput()
    page,             \* open mode: module-level `page`
    monitoredPages,   \* sequence of pages
    activePageCleanup,\* page whose teardown closure is stored, NoPage = null
    listeners,        \* pages with live console/request/response subscriptions
    inflight,         \* requests started and not yet answered: [page, id]
    collectingPaused,
    isSelectingTab,
    outputCounter,
    mainArg,          \* local of the main flow: pages offered, tabs to close
    pending,          \* handlers suspended at an await
    logBuffer,        \* the LogBuffer object and the files it writes
    lastDump,         \* what the latest dump wrote
    cleanupDone,      \* one-shot flag of cleanup()
    shutdown,         \* the running cleanup(): position, arguments, effects
    httpServer,       \* the HTTP listener: listening / closing / closed
    httpConns,        \* connections the HTTP listener still holds
    timerFired,       \* the hard-timeout timer has fired
    chromes,          \* the browser instances of the host: pid -> instance
    portproxy,        \* the forwarding rules of the host (netsh portproxy)
    conn,             \* the connection phase of runJoinMode / runOpenMode
    hist,             \* history kept for the properties
    menu              \* the interactive menu: its key handler and join flows

vars == << mode, lazyMode, hardTimeout, launchedOnWindows, pageUrl, openPages, browser, mainPc,
           keyboard, page, monitoredPages, activePageCleanup, listeners,
           inflight, collectingPaused, isSelectingTab, outputCounter, mainArg,
           pending,
           logBuffer, lastDump, cleanupDone, shutdown, httpServer, httpConns,
           timerFired, chromes, portproxy, conn, hist, menu >>

(***************************************************************************)
(* Sequence helpers.                                                       *)
(***************************************************************************)
SeqOfSet(S) ==
    [ i \in 1..Cardinality(S) |->
        CHOOSE x \in S : Cardinality({ y \in S : y < x }) = i - 1 ]

Range(s) == { s[i] : i \in 1..Len(s) }

RemoveAt(s, i) == SubSeq(s, 1, i - 1) \o SubSeq(s, i + 1, Len(s))

(***************************************************************************)
(* LogBuffer (logging/index.mjs).  The object's fields plus the contents   *)
(* of the files at CONSOLE_LOG, NETWORK_LOG and NETWORK_DIR.               *)
(***************************************************************************)
Undefined == "undefined"

\* JSON.stringify drops the keys whose value is undefined; JSON.parse of the
\* result gives the remaining keys back.
JsonRoundTrip(rec) ==
    LET keep == { k \in DOMAIN rec : rec[k] # Undefined }
    IN [ k \in keep |-> rec[k] ]

\* { ...a, ...b }
Spread(a, b) ==
    [ k \in (DOMAIN a) \cup (DOMAIN b) |-> IF k \in DOMAIN b THEN b[k] ELSE a[k] ]

EmptyRecord == [ k \in {} |-> Undefined ]

RECURSIVE Digits(_)
Digits(n) == IF n < 10 THEN << n >> ELSE Digits(n \div 10) \o << n % 10 >>

RECURSIVE PadStart(_, _)
PadStart(s, width) == IF Len(s) >= width THEN s ELSE PadStart(<< 0 >> \o s, width)

\* constants.mjs: the word sequences that stand for the built-in patterns
DEFAULT_IGNORE_PATTERNS == << << "dev", "tools" >> >>

HMR_PATTERNS == << << "hmr" >> >>

\* new LogBuffer({ lazyMode, ignorePatterns })
NewLogBufferWith(ignorePatterns) ==
    [ consoleBuffer |-> << >>,
      networkBuffer |-> << >>,
      requestDetails |-> EmptyRecord,
      requestCounter |-> 0,
      ignorePatterns |-> DEFAULT_IGNORE_PATTERNS \o ignorePatterns,
      CONSOLE_LOG |-> << >>,
      NETWORK_LOG |-> << >>,
      NETWORK_DIR |-> EmptyRecord ]

\* ignorePatterns = [] by default
NewLogBuffer == NewLogBufferWith(<< >>)

nextRequestCounterStuck(lb) == lb.requestCounter

\* nextRequestId(): the counter after the call, and the id returned
nextRequestCounter(lb) == lb.requestCounter + 1

nextRequestIdUnpadded(lb) == Digits(nextRequestCounter(lb))

nextRequestId(lb) == PadStart(Digits(nextRequestCounter(lb)), ID_WIDTH)

logConsole(lb, message) ==
    IF lazyMode
    THEN [ lb EXCEPT !.consoleBuffer = Append(@, message) ]
    ELSE [ lb EXCEPT !.CONSOLE_LOG = Append(@, message) ]

clearConsoleBuffer(lb) ==
    IF lazyMode
    THEN [ lb EXCEPT !.consoleBuffer = << >> ]
    ELSE [ lb EXCEPT !.CONSOLE_LOG = << >> ]

\* A line of a log: a separator rule, a separator title, a console message or
\* the summary line of a request (which carries the exchange id).
NoId == << >>

Line(kind, text, id) == [ kind |-> kind, text |-> text, id |-> id ]

SeparatorLine == Line("rule", "====", NoId)

TitleLine(title) == Line("title", title, NoId)

printConsoleSeparatorBare(lb, title) == logConsole(lb, TitleLine(title))

printConsoleSeparator(lb, title) ==
    logConsole(logConsole(logConsole(lb, SeparatorLine), TitleLine(title)), SeparatorLine)

logNetwork(lb, message) ==
    IF lazyMode
    THEN [ lb EXCEPT !.networkBuffer = Append(@, message) ]
    ELSE [ lb EXCEPT !.NETWORK_LOG = Append(@, message) ]

clearNetworkDir(lb) == [ lb EXCEPT !.NETWORK_DIR = EmptyRecord ]

printNetworkSeparator(lb, title) ==
    logNetwork(logNetwork(logNetwork(lb, SeparatorLine), TitleLine(title)), SeparatorLine)

WriteFile(dir, id, data) ==
    [ f \in (DOMAIN dir) \cup {id} |-> IF f = id THEN JsonRoundTrip(data) ELSE dir[f] ]

saveRequestDetail(lb, id, data) ==
    IF lazyMode
    THEN [ lb EXCEPT !.requestDetails =
             [ k \in (DOMAIN @) \cup {id} |-> IF k = id THEN data ELSE @[k] ] ]
    ELSE [ lb EXCEPT !.NETWORK_DIR = WriteFile(@, id, data) ]

updateRequestDetailReplacing(lb, id, updates) == saveRequestDetail(lb, id, updates)

updateRequestDetail(lb, id, updates) ==
    IF lazyMode
    THEN LET existing == IF id \in DOMAIN lb.requestDetails
                         THEN lb.requestDetails[id] ELSE EmptyRecord
         IN [ lb EXCEPT !.requestDetails =
                [ k \in (DOMAIN @) \cup {id} |->
                    IF k = id THEN Spread(existing, updates) ELSE @[k] ] ]
    ELSE IF id \in DOMAIN lb.NETWORK_DIR
         THEN [ lb EXCEPT !.NETWORK_DIR =
                  WriteFile(@, id, Spread(lb.NETWORK_DIR[id], updates)) ]
         ELSE saveRequestDetail(lb, id, updates)

clearAllBuffersKeepingLogs(lb) ==
    [ lb EXCEPT !.requestDetails = EmptyRecord,
                !.requestCounter = 0 ]

clearAllBuffersKeepingDetails(lb) ==
    [ lb EXCEPT !.consoleBuffer = << >>,
                !.networkBuffer = << >>,
                !.requestCounter = 0 ]

clearAllBuffersKeepingCounter(lb) ==
    [ lb EXCEPT !.consoleBuffer = << >>,
                !.networkBuffer = << >>,
                !.requestDetails = EmptyRecord ]

clearAllBuffers(lb) ==
    [ lb EXCEPT !.consoleBuffer = << >>,
                !.networkBuffer = << >>,
                !.requestDetails = EmptyRecord,
                !.requestCounter = 0 ]

getStats(lb) ==
    [ consoleEntries |-> Len(lb.consoleBuffer),
      networkEntries |-> Len(lb.networkBuffer),
      requestDetails |-> Cardinality(DOMAIN lb.requestDetails) ]

(***************************************************************************)
(* Browser pages and the page filters.                                     *)
(***************************************************************************)
UrlKinds == { "user", "blank", "chrome", "devtools", "extension", "reactdev" }

\* browser.pages()
browserPages == SeqOfSet(openPages)

\* isUserPage of the initial selection of join mode
isUserPageInitial(p) ==
    /\ pageUrl[p] # "chrome"
    /\ pageUrl[p] # "extension"
    /\ pageUrl[p] # "devtools"
    /\ pageUrl[p] # "blank"
    /\ pageUrl[p] # "reactdev"

initialCandidates ==
    LET userPages == SelectSeq(browserPages, isUserPageInitial)
    IN IF Len(userPages) > 0 THEN userPages ELSE browserPages

\* isUserPage of getAllTabs, switchToTab and switchTabs
isUserPage(p) ==
    /\ pageUrl[p] # "chrome"
    /\ pageUrl[p] # "devtools"
    /\ pageUrl[p] # "extension"

isNonBlank(p) == pageUrl[p] # "blank"

switchCandidatesUnfiltered == browserPages

switchCandidates ==
    LET pages == SelectSeq(browserPages, isUserPage)
        nonBlank == SelectSeq(pages, isNonBlank)
    IN IF Len(nonBlank) > 0 THEN nonBlank ELSE pages

\* getAllTabs(): [{ index: i + 1, url }]
getAllTabs ==
    IF ~browser THEN << >>
    ELSE [ i \in 1..Len(switchCandidates) |->
             [ index |-> i, url |-> pageUrl[switchCandidates[i]] ] ]

\* open mode: initialPages.find(about:blank) || initialPages[0]
isBlank(p) == pageUrl[p] = "blank"

openInitialPage ==
    LET blanks == SelectSeq(browserPages, isBlank)
    IN IF Len(blanks) > 0 THEN blanks[1] ELSE browserPages[1]

(***************************************************************************)
(* Page monitoring (monitor/page-monitoring.mjs): the subscriptions of the *)
(* monitored page and the handlers of its events.                          *)
(***************************************************************************)
\* setupPageMonitoringShared(page, {..., setActivePageCleanup}): the previous
\* page's subscriptions are removed, then the new page is subscribed and its
\* teardown closure handed to the caller.
subscribeOnly(p) == { p }

setupPageMonitoringShared(p) ==
    /\ listeners' = subscribeOnly(p)
    /\ activePageCleanup' = p

setupPageMonitoringSkipped(p) == UNCHANGED << listeners, activePageCleanup >>

\* setupPageMonitoring(page) of join-mode.mjs and open-mode.mjs
setupPageMonitoring(p) == setupPageMonitoringShared(p)

\* The text of a console message, as the sequence of its words.
MessageText ==
    [ plain |-> << "log" >>,
      ignored |-> << "open", "dev", "tools" >>,
      hmr |-> << "hmr", "update" >>,
      custom |-> << "log", "noise" >>,
      hmrIgnored |-> << "hmr", "dev", "tools" >>,
      apart |-> << "dev", "log", "tools" >> ]

MessageKinds == DOMAIN MessageText

\* String.prototype.includes: p occurs in the message as a contiguous part
includes(message, p) ==
    LET text == MessageText[message]
    IN \E i \in 0..(Len(text) - Len(p)) : SubSeq(text, i + 1, i + Len(p)) = p

some(patterns, message) == \E k \in 1..Len(patterns) : includes(message, patterns[k])

shouldIgnoreDefaults(lb, message) == some(DEFAULT_IGNORE_PATTERNS, message)

\* logBuffer.shouldIgnore(message) / logBuffer.isHmr(message)
shouldIgnore(lb, message) == some(lb.ignorePatterns, message)

isHmr(message) == some(HMR_PATTERNS, message)

ConsoleLine(message) == Line("console", message, NoId)

RequestLine(id) == Line("request", "request", id)

onConsoleEvent(lb, message) ==
    IF collectingPaused \/ shouldIgnore(lb, message)
    THEN lb
    ELSE logConsole(lb, ConsoleLine(message))

onRequestStarted(lb, data) ==
    IF collectingPaused
    THEN lb
    ELSE LET id == nextRequestId(lb)
             counted == [ lb EXCEPT !.requestCounter = nextRequestCounter(lb) ]
         IN logNetwork(saveRequestDetail(counted, id, data), RequestLine(id))

onResponseReceived(lb, id, updates) ==
    IF collectingPaused THEN lb ELSE updateRequestDetail(lb, id, updates)

onRequestFailed(lb, id, updates) ==
    IF collectingPaused THEN lb ELSE updateRequestDetail(lb, id, updates)

(***************************************************************************)
(* Dump (logging/dump.mjs).  The buffered logs and the exchange records    *)
(* are written to their files when the dump is invoked; the page artifacts *)
(* (cookies, DOM, screenshot) follow after awaits.  In realtime mode the   *)
(* logs are already in their files and the dump writes none of them.       *)
(***************************************************************************)
NoDump == [ console |-> << >>, network |-> << >>, files |-> EmptyRecord ]

dumpArtifacts(lb) ==
    IF lazyMode
    THEN [ console |-> lb.consoleBuffer,
           network |-> lb.networkBuffer,
           files |-> [ id \in DOMAIN lb.requestDetails |->
                         JsonRoundTrip(lb.requestDetails[id]) ] ]
    ELSE NoDump

doDumpBuffersToFiles(lb) ==
    IF lazyMode
    THEN [ lb EXCEPT !.CONSOLE_LOG = lb.consoleBuffer,
                     !.NETWORK_LOG = lb.networkBuffer,
                     !.NETWORK_DIR = Spread(@, dumpArtifacts(lb).files) ]
    ELSE lb

dumpBuffersToFilesAndClear(lb) ==
    [ doDumpBuffersToFiles(lb) EXCEPT !.consoleBuffer = << >>,
                                      !.networkBuffer = << >>,
                                      !.requestDetails = EmptyRecord ]

\* LogBuffer.dumpBuffersToFiles(options): return doDumpBuffersToFiles(this, options)
dumpBuffersToFiles(lb) == doDumpBuffersToFiles(lb)

(***************************************************************************)
(* History kept for the properties: it never influences the program.       *)
(***************************************************************************)
\* runInteractiveMode: the keypress handler of the menu, the join flows it
\* has started and that wait at an await, the modes started, process.exit
NoMenu == [ listening |-> FALSE, flows |-> << >>, started |-> << >>, exited |-> FALSE ]

NoHist ==
    [ issued |-> << >>,        \* ids issued in the session, in order
      sinceClear |-> << >>,    \* ids issued since the latest clear
      preClear |-> {},         \* ids issued before the latest clear
      afterClear |-> "event",  \* since the latest clear: "clear" nothing yet,
                               \* "dump" dumps only, "event" a browser event
      supplied |-> EmptyRecord,\* id -> field maps supplied to the exchange
      selected |-> FALSE,      \* a page has been selected
      prev |-> NoPage,         \* page monitored before the latest switch
      stray |-> FALSE,         \* that page emitted an event after the switch
      called |-> {},           \* page methods POST /puppeteer has called
      failed |-> "no",         \* first uncaught error that is no navigation
                               \* error: "running" before, "closing" after
                               \* the start of cleanup()
      counted |-> 0,           \* outputCounter where the behaviour starts
      recorded |-> 0,          \* requestCounter where the behaviour starts
      slots |-> MaxPending,    \* handlers the behaviour lets wait at an await
      reply |-> "off" ]        \* what the latest switch-page command returned,
                               \* where the behaviour keeps it ("none" so far)

\* the result a switch-page command returns
noteReply(h, result) == IF h.reply = "off" THEN h ELSE [ h EXCEPT !.reply = result ]

Alive == shutdown.pc # "exited"

noteDump(h) ==
    [ h EXCEPT !.afterClear = IF @ = "clear" THEN "dump" ELSE @ ]

\* the options and the host, apart from its browser instances
optVars == << menu, mode, lazyMode, hardTimeout, launchedOnWindows, portproxy, conn >>

cfgVars == << optVars, chromes >>

shutVars == << cleanupDone, shutdown, httpServer, timerFired >>

pageVars == << page, monitoredPages, activePageCleanup, listeners >>

tabVars == << pageUrl, openPages >>

\* maybeShowHelp(): the counter after the call
maybeShowHelp(counter) == counter + 1

reminderShown(counter) == counter % HELP_INTERVAL = 0

monitorAlso(selectedPage) == Append(monitoredPages, selectedPage)

\* monitoredPages = [selectedPage]
monitorOnly(selectedPage) == << selectedPage >>

\* The synchronous tail of a tab switch: (page = selectedPage;)
\* monitoredPages = [selectedPage]; setupPageMonitoring(selectedPage);
\* printConsoleSeparator / printNetworkSeparator('TAB SWITCHED')
switchTo(selectedPage) ==
    /\ page' = IF mode = "open" THEN selectedPage ELSE page
    /\ monitoredPages' = monitorOnly(selectedPage)
    /\ setupPageMonitoring(selectedPage)
    /\ logBuffer' = printNetworkSeparator(
                        printConsoleSeparator(logBuffer, "TAB SWITCHED"), "TAB SWITCHED")
    /\ hist' = noteReply([ hist EXCEPT !.selected = TRUE,
                                       !.prev = IF monitoredPages = << >> THEN NoPage
                                                ELSE monitoredPages[1],
                                       !.stray = FALSE ], "success")

isTitle(l, title) == l.kind = "title" /\ l.text = title

isSwitchTitle(l) == isTitle(l, "TAB SWITCHED")

isConsoleLine(l) == l.kind = "console"

isRequestLine(l) == l.kind = "request"

consoleLog == IF lazyMode THEN logBuffer.consoleBuffer ELSE logBuffer.CONSOLE_LOG

networkLog == IF lazyMode THEN logBuffer.networkBuffer ELSE logBuffer.NETWORK_LOG

RoomForSwitch == Len(SelectSeq(consoleLog, isSwitchTitle)) < MaxSwitches

RoomForConsole == Len(SelectSeq(consoleLog, isConsoleLine)) < MaxEvents

RoomForRequest ==
    /\ logBuffer.requestCounter < hist.recorded + MaxRequests
    /\ Len(hist.issued) < MaxIssued
    /\ Len(SelectSeq(networkLog, isRequestLine)) < hist.recorded + MaxIssued

sessVars == << browser, mainPc, keyboard, mainArg >>

ctlVars == << collectingPaused, isSelectingTab, outputCounter, pending >>

bufVars == << logBuffer, lastDump, inflight >>

(***************************************************************************)
(* The host: browser instances (one per process tree) and forwarding rules.*)
(***************************************************************************)
Pids == 1..NumChromes
NoPid == 0

Ports == START_PORT..(START_PORT + NumPorts - 1)
NoPort == 0

\* --user-data-dir as findProjectChrome reads it: the substrings it tests for
\* that the lower-cased path contains
NoProfile == {}

NewFormat == { "browsermonitor", "profileId", "projectName" }

OldFormat == { "puppeteer-monitor", "profileId", "projectName" }

LegacyName == { "puppeteer-monitor", "projectName" }

NativeProfile == { ".puppeteer-profile", "projectName" }

OtherProject == { "browsermonitor" }

Profiles == { NoProfile, NewFormat, OldFormat, LegacyName, NativeProfile, OtherProject }

BindAddresses == { "127.0.0.1", "0.0.0.0" }

\* A browser instance as its command line shows it: marker is TRUE when the
\* command line contains 'browsermonitor' or 'puppeteer-monitor', profile is
\* the value of --user-data-dir, bindAddress the value of
\* --remote-debugging-address ('127.0.0.1' without the flag), port the value
\* of --remote-debugging-port (NoPort without the flag).
ChromeOn(alive, marker, profile, bindAddress, port) ==
    [ alive |-> alive, marker |-> marker, profile |-> profile,
      bindAddress |-> bindAddress, port |-> port ]

\* an instance on the loopback address, with the profile of this project
\* (project) or another one
Chrome(alive, marker, project, port) ==
    ChromeOn(alive, marker,
             IF project THEN (IF marker THEN NewFormat ELSE NativeProfile)
             ELSE (IF marker THEN OtherProject ELSE NoProfile),
             "127.0.0.1", port)

NoChrome == Chrome(FALSE, FALSE, FALSE, NoPort)

Running(cs) == { pid \in DOMAIN cs : cs[pid].alive }

\* the instances whose command line matches /browsermonitor|puppeteer-monitor/
puppeteerMonitorPids(cs) == { pid \in Running(cs) : cs[pid].marker }

First(S) == CHOOSE x \in S : \A y \in S : x <= y

Stopped(cs, pid) == [ cs EXCEPT ![pid].alive = FALSE ]

NoDiag == [ ran |-> FALSE, hasPortProxyConflict |-> FALSE, actualPort |-> NoPort ]

\* The connection phase: position, options, what it has done so far.
NoConn ==
    [ pc |-> "start",
      isWSL |-> FALSE,         \* /proc/version names microsoft or wsl
      chromeFound |-> FALSE,   \* a Chrome executable was detected on Windows
      port |-> START_PORT,     \* --join=PORT
      actualPort |-> START_PORT, \* actualPort / windowsDebugPort
      attempt |-> 0,           \* attempts started
      trace |-> << >>,         \* waits, probes, connection attempts, in order
      waited |-> 0,            \* milliseconds spent in the waits
      match |-> [ found |-> FALSE, instance |-> NoPid, matchType |-> "none" ],
                               \* projectMatch of findProjectChrome
      elevated |-> TRUE,       \* netsh may change the forwarding rules
      bind |-> [ polls |-> 0, waited |-> 0, chromeBindAddress |-> "null",
                 address |-> "null", readyAt |-> 0 ],
                               \* the detection of Chrome's bind address
      target |-> NoPid,        \* the instance the browser handle is connected to
      diag |-> NoDiag,         \* diagResult of runWslDiagnostics
      fix |-> << >>,           \* steps of the automatic fix, in order
      answer |-> "",           \* the operator's answer to the fix prompt
      killed |-> {},           \* instances terminated by this phase
      code |-> 0 ]             \* process.exit(code)

\* puppeteer.connect / puppeteer.launch is under way
Connecting == [ NoConn EXCEPT !.pc = "connect" ]

\* one managed browser of this project listens on START_PORT
OwnChrome == [ pid \in Pids |-> IF pid = 1 THEN Chrome(TRUE, TRUE, TRUE, START_PORT)
                                ELSE NoChrome ]

\* the instance that listens on the port
listener(cs, port) ==
    LET S == { pid \in Running(cs) : cs[pid].port = port }
    IN IF S = {} THEN NoPid ELSE First(S)

\* killPuppeteerMonitorChromes(usePowerShell): taskkill /T /F of the first
\* matching pid, or Stop-Process of the first matching process and break
killPuppeteerMonitorChromes(cs, usePowerShell) ==
    IF puppeteerMonitorPids(cs) = {}
    THEN cs
    ELSE Stopped(cs, First(puppeteerMonitorPids(cs)))

\* await browser.close(): the browser the handle is connected to shuts down
browserClose(cs) ==
    IF conn.target = NoPid THEN cs ELSE Stopped(cs, conn.target)

(***************************************************************************)
(* Shutdown: cleanup(code, closeBrowser) and its continuation.             *)
(***************************************************************************)
NoShutdown ==
    [ pc |-> "idle", code |-> 0, closeBrowser |-> FALSE, runs |-> 0, effects |-> << >> ]

browserPartClosing(sd) ==
    IF ~browser
    THEN [ sd EXCEPT !.pc = "exited", !.effects = Append(@, "exit") ]
    ELSE [ sd EXCEPT !.pc = "browserClosing" ]

\* cleanup() after its HTTP part: if (browser) { closeBrowser ? (launchedOnWindows
\* ? disconnect + kill : await browser.close()) : disconnect }; process.exit(code)
browserPart(sd) ==
    IF ~browser
    THEN [ sd EXCEPT !.pc = "exited", !.effects = Append(@, "exit") ]
    ELSE IF sd.closeBrowser
         THEN IF launchedOnWindows
              THEN [ sd EXCEPT !.pc = "exited",
                               !.effects = @ \o << "disconnect", "kill", "exit" >> ]
              ELSE [ sd EXCEPT !.pc = "browserClosing" ]
         ELSE [ sd EXCEPT !.pc = "exited",
                          !.effects = @ \o << "disconnect", "exit" >> ]

\* the browser instances after that part of cleanup()
browserPartChromes(sd) ==
    IF browser /\ sd.closeBrowser /\ launchedOnWindows
    THEN killPuppeteerMonitorChromes(chromes, TRUE)
    ELSE chromes

\* the body of cleanup() up to its first await
cleanupBody(code, closeBrowser) ==
    LET entered == [ shutdown EXCEPT !.code = code, !.closeBrowser = closeBrowser,
                                     !.runs = @ + 1 ]
    IN /\ cleanupDone' = TRUE
       /\ IF httpServer = "none"
          THEN /\ shutdown' = browserPart(entered)
               /\ chromes' = browserPartChromes(entered)
               /\ UNCHANGED httpServer
          ELSE /\ shutdown' = [ entered EXCEPT !.pc = "httpClosing" ]
               /\ httpServer' = "closing"
               /\ UNCHANGED chromes

cleanupUnguarded(code, closeBrowser) == cleanupBody(code, closeBrowser)

\* async function cleanup(code = 0, closeBrowser = false)
cleanup(code, closeBrowser) ==
    IF cleanupDone
    THEN UNCHANGED << cleanupDone, shutdown, httpServer, chromes >>
    ELSE cleanupBody(code, closeBrowser)

isHttpJob(j) == j.kind \in { "httpSwitch", "httpDump" }

\* httpServer.close(resolve) resolves once the listener holds no connection;
\* then, without suspension: disconnect and exit, or await browser.close().
HttpClosed ==
    /\ shutdown.pc = "httpClosing"
    /\ httpConns = 0
    /\ SelectSeq(pending, isHttpJob) = << >>
    /\ httpServer' = "closed"
    /\ shutdown' = browserPart([ shutdown EXCEPT !.effects = Append(@, "http") ])
    /\ chromes' = browserPartChromes(shutdown)
    /\ UNCHANGED << optVars, tabVars, sessVars, pageVars, ctlVars, bufVars,
                    cleanupDone, timerFired, httpConns, hist >>

BrowserClosed ==
    /\ shutdown.pc = "browserClosing"
    /\ shutdown' = [ shutdown EXCEPT !.pc = "exited",
                                     !.effects = @ \o << "close", "exit" >> ]
    /\ chromes' = browserClose(chromes)
    /\ UNCHANGED << optVars, tabVars, sessVars, pageVars, ctlVars, bufVars,
                    cleanupDone, httpServer, timerFired, httpConns, hist >>

Signal(name) ==
    /\ Alive
    /\ cleanup(0, FALSE)
    /\ UNCHANGED << optVars, tabVars, sessVars, pageVars, ctlVars, bufVars,
                    timerFired, httpConns, hist >>

Sigint == Signal("SIGINT")

Sigterm == Signal("SIGTERM")

isNavigationErrorNever(msg) == FALSE

\* /Execution context was destroyed|Target closed|Protocol error/.test(msg)
isNavigationError(msg) ==
    msg \in { "Execution context was destroyed", "Target closed", "Protocol error" }

ErrorMessages == { "Execution context was destroyed", "Target closed",
                   "Protocol error", "TypeError" }

noteError(h) ==
    [ h EXCEPT !.failed = IF @ # "no" THEN @
                          ELSE IF cleanupDone THEN "closing" ELSE "running" ]

UncaughtException(msg) ==
    /\ Alive
    /\ IF isNavigationError(msg)
       THEN UNCHANGED << cleanupDone, shutdown, httpServer, chromes, hist >>
       ELSE /\ cleanup(1, FALSE)
            /\ hist' = noteError(hist)
    /\ UNCHANGED << optVars, tabVars, sessVars, pageVars, ctlVars, bufVars,
                    timerFired, httpConns >>

HardTimeoutFires ==
    /\ Alive
    /\ hardTimeout
    /\ ~timerFired
    /\ timerFired' = TRUE
    /\ cleanup(1, FALSE)
    /\ UNCHANGED << optVars, tabVars, sessVars, pageVars, ctlVars, bufVars,
                    httpConns, hist >>

\* A client opens a connection to the HTTP listener / a connection ends.
HttpConnOpen ==
    /\ Alive
    /\ httpServer = "listening"
    /\ httpConns < MaxConns
    /\ httpConns' = httpConns + 1
    /\ UNCHANGED << cfgVars, tabVars, sessVars, pageVars, ctlVars, bufVars,
                    shutVars, hist >>

HttpConnEnd ==
    /\ Alive
    /\ httpConns > 0
    /\ httpConns' = httpConns - 1
    /\ UNCHANGED << cfgVars, tabVars, sessVars, pageVars, ctlVars, bufVars,
                    shutVars, hist >>

(***************************************************************************)
(* Start-up: connect, choose the first page, subscribe, become ready.      *)
(***************************************************************************)
MonitorLine(text) == Line("monitor", text, NoId)

\* A tab is opened in the browser (by the operator or by a page).
NewTab(p) ==
    /\ Alive
    /\ p \notin openPages
    /\ openPages' = openPages \cup {p}
    /\ UNCHANGED << cfgVars, pageUrl, sessVars, pageVars, ctlVars, bufVars,
                    shutVars, httpConns, hist >>

\* browser = await puppeteer.connect(...) / puppeteer.launch(...)
Connect(windows) ==
    /\ Alive
    /\ mainPc = "start"
    /\ conn.pc = "connect"
    /\ listener(chromes, conn.actualPort) # NoPid
    /\ browser' = TRUE
    /\ launchedOnWindows' = (mode = "open" /\ windows)
    /\ mainPc' = "connected"
    /\ conn' = [ conn EXCEPT !.pc = "connected",
                             !.trace = Append(@, "connect"),
                             !.target = listener(chromes, conn.actualPort) ]
    /\ UNCHANGED << menu, mode, lazyMode, hardTimeout, chromes, portproxy, tabVars,
                    keyboard, mainArg, pageVars, ctlVars, bufVars, shutVars,
                    httpConns, hist >>

\* join mode: monitoredPages = [selectedPage]; setupPageMonitoring(...);
\* the CONNECTED separators; setupKeyboardInput()
joinSelect(selectedPage) ==
    /\ monitoredPages' = monitorOnly(selectedPage)
    /\ setupPageMonitoring(selectedPage)
    /\ logBuffer' = printNetworkSeparator(
                        printConsoleSeparator(logBuffer, "CONNECTED"), "CONNECTED")
    /\ keyboard' = TRUE
    /\ mainPc' = "ready"
    /\ mainArg' = << >>
    /\ hist' = [ hist EXCEPT !.selected = TRUE ]
    /\ UNCHANGED << page, cleanupDone, shutdown, httpServer >>

JoinInitialPages ==
    /\ Alive
    /\ mode = "join"
    /\ mainPc = "connected"
    /\ LET pages == initialCandidates
       IN IF Len(pages) = 0
          THEN /\ cleanup(1, FALSE)
               /\ mainPc' = "returned"
               /\ UNCHANGED << pageVars, logBuffer, keyboard, mainArg, hist >>
          ELSE IF Len(pages) = 1
               THEN joinSelect(pages[1])
               ELSE /\ mainPc' = "selecting"
                    /\ mainArg' = pages
                    /\ UNCHANGED << pageVars, logBuffer, keyboard, hist,
                                    cleanupDone, shutdown, httpServer >>
    /\ UNCHANGED << cfgVars, tabVars, browser, ctlVars, lastDump, inflight,
                    timerFired, httpConns >>

\* askUserToSelectPage(pages) resolves: choice 0 is a cancelled prompt (null)
JoinInitialAnswer(choice) ==
    /\ Alive
    /\ mode = "join"
    /\ mainPc = "selecting"
    /\ choice \in 0..Len(mainArg)
    /\ joinSelect(IF choice = 0 THEN mainArg[1] ELSE mainArg[choice])
    /\ UNCHANGED << cfgVars, tabVars, browser, ctlVars, lastDump, inflight,
                    timerFired, httpConns >>

\* open mode: page = ...; monitoredPages = [page]; setupPageMonitoring(page);
\* NAVIGATION STARTED; await page.goto(url)
OpenInitialPage ==
    /\ Alive
    /\ mode = "open"
    /\ mainPc = "connected"
    /\ openPages # {}
    /\ page' = openInitialPage
    /\ monitoredPages' = monitorOnly(openInitialPage)
    /\ setupPageMonitoring(openInitialPage)
    /\ logBuffer' = printNetworkSeparator(
                        IF lazyMode THEN logBuffer
                        ELSE logConsole(logBuffer, MonitorLine("Navigating")),
                        "NAVIGATION STARTED")
    /\ mainPc' = "navigating"
    /\ mainArg' = << openInitialPage >>
    /\ hist' = [ hist EXCEPT !.selected = TRUE ]
    /\ UNCHANGED << cfgVars, tabVars, browser, keyboard, ctlVars, lastDump,
                    inflight, shutVars, httpConns >>

\* page.goto resolves; the PAGE LOADED separators; await browser.pages()
PageLoaded ==
    /\ Alive
    /\ mode = "open"
    /\ mainPc = "navigating"
    /\ pageUrl' = [ pageUrl EXCEPT ![mainArg[1]] = "user" ]
    /\ logBuffer' = printNetworkSeparator(
                        printConsoleSeparator(logBuffer, "PAGE LOADED"), "PAGE LOADED")
    /\ mainPc' = "listing"
    /\ mainArg' = << >>
    /\ UNCHANGED << cfgVars, openPages, browser, keyboard, pageVars, ctlVars,
                    lastDump, inflight, shutVars, httpConns, hist >>

\* const allPages = await browser.pages()
ListTabsToClose ==
    /\ Alive
    /\ mode = "open"
    /\ mainPc = "listing"
    /\ mainArg' = browserPages
    /\ mainPc' = "closing"
    /\ UNCHANGED << cfgVars, tabVars, browser, keyboard, pageVars, ctlVars,
                    bufVars, shutVars, httpConns, hist >>

\* p !== page && !p.isClosed()
toClose(p) == p # page /\ p \in openPages

\* the pages of the listing from the first one that the loop closes
RECURSIVE fromNextToClose(_)
fromNextToClose(pages) ==
    IF pages = << >> \/ toClose(Head(pages)) THEN pages
    ELSE fromNextToClose(Tail(pages))

\* for (const p of allPages) if (p !== page && !p.isClosed()) await p.close():
\* the loop runs on to its next await, the close of a page
CloseNextTab ==
    /\ Alive
    /\ mode = "open"
    /\ mainPc = "closing"
    /\ fromNextToClose(mainArg) # << >>
    /\ openPages' = openPages \ { Head(fromNextToClose(mainArg)) }
    /\ mainArg' = Tail(fromNextToClose(mainArg))
    /\ UNCHANGED << cfgVars, pageUrl, browser, mainPc, keyboard, pageVars, ctlVars,
                    bufVars, shutVars, httpConns, hist >>

\* realtime: the [Monitor] lines; lazy: printReadyHelp and setupKeyboardInput()
OpenReady ==
    /\ Alive
    /\ mode = "open"
    /\ mainPc = "closing"
    /\ fromNextToClose(mainArg) = << >>
    /\ logBuffer' = IF lazyMode THEN logBuffer
                    ELSE logConsole(logConsole(logConsole(logConsole(logBuffer,
                             MonitorLine("URL")), MonitorLine("Press Ctrl+C to stop")),
                             MonitorLine("Type console.clear()")), MonitorLine(""))
    /\ keyboard' = lazyMode
    /\ mainPc' = "ready"
    /\ mainArg' = << >>
    /\ UNCHANGED << cfgVars, tabVars, browser, pageVars, ctlVars,
                    lastDump, inflight, shutVars, httpConns, hist >>

(***************************************************************************)
(* Keyboard commands: process.stdin.on('keypress', ...).                   *)
(***************************************************************************)
Job(kind, index, pages, p) == [ kind |-> kind, index |-> index, pages |-> pages, page |-> p ]

LivePage == 0 - 1

KeyAcceptedWhileSelecting ==
    /\ Alive
    /\ keyboard

\* The main handler acts on a key: not Ctrl+C, no tab prompt pending.
KeyAccepted ==
    /\ Alive
    /\ keyboard
    /\ ~isSelectingTab

CanSuspend == Len(pending) < hist.slots

CanCount == outputCounter < hist.counted + MaxCommands

KeyCtrlC ==
    /\ Alive
    /\ keyboard
    /\ cleanup(0, FALSE)
    /\ UNCHANGED << optVars, tabVars, sessVars, pageVars, ctlVars, bufVars,
                    timerFired, httpConns, hist >>

KeyQ ==
    /\ KeyAccepted
    /\ cleanup(0, FALSE)
    /\ UNCHANGED << optVars, tabVars, sessVars, pageVars, ctlVars, bufVars,
                    timerFired, httpConns, hist >>

KeyK ==
    /\ KeyAccepted
    /\ cleanup(0, TRUE)
    /\ UNCHANGED << optVars, tabVars, sessVars, pageVars, ctlVars, bufVars,
                    timerFired, httpConns, hist >>

\* the page the dump closures read: join mode binds monitoredPages[0] at the
\* key press, open mode reads the module-level `page` when each closure runs
dumpPage ==
    IF mode = "join"
    THEN IF Len(monitoredPages) > 0 THEN monitoredPages[1] ELSE NoPage
    ELSE LivePage

\* 'd': await logBuffer.dumpBuffersToFiles({...}); maybeShowHelp()
KeyD ==
    /\ KeyAccepted
    /\ CanSuspend
    /\ CanCount
    /\ logBuffer' = dumpBuffersToFiles(logBuffer)
    /\ lastDump' = dumpArtifacts(logBuffer)
    /\ pending' = Append(pending, Job("kbdDump", 0, << >>, dumpPage))
    /\ hist' = noteDump(hist)
    /\ UNCHANGED << cfgVars, tabVars, sessVars, pageVars, collectingPaused,
                    isSelectingTab, outputCounter, inflight, shutVars, httpConns >>

\* the artifacts a dump reads from the page, one await each
Artifacts == << "cookies", "dom", "screenshot" >>

\* the page a dump closure hands to logBuffer.dump...FromPage when it runs
closurePage(job) == IF job.page = LivePage THEN page ELSE job.page

isDumpJob(j) == j.kind \in { "kbdDump", "httpDump" }

\* every closure of the dump has run (none was passed when there is no page)
dumpRead(job) == job.page = NoPage \/ Len(job.pages) = Len(Artifacts)

\* the next closure of a suspended dump runs: options.dumpCookies(),
\* options.dumpDom(), options.dumpScreenshot()
DumpArtifact(i) ==
    /\ Alive
    /\ i \in 1..Len(pending)
    /\ isDumpJob(pending[i])
    /\ ~dumpRead(pending[i])
    /\ pending' = [ pending EXCEPT ![i].pages = Append(@, closurePage(pending[i])) ]
    /\ UNCHANGED << cfgVars, tabVars, sessVars, pageVars, collectingPaused,
                    isSelectingTab, outputCounter, bufVars, shutVars, httpConns, hist >>

KeyDumpDone(i) ==
    /\ Alive
    /\ i \in 1..Len(pending)
    /\ pending[i].kind = "kbdDump"
    /\ dumpRead(pending[i])
    /\ pending' = RemoveAt(pending, i)
    /\ outputCounter' = maybeShowHelp(outputCounter)
    /\ UNCHANGED << cfgVars, tabVars, sessVars, pageVars, collectingPaused,
                    isSelectingTab, bufVars, shutVars, httpConns, hist >>

\* the requests in flight at a clear: the page goes on answering them; they
\* are marked as started before the clear
staleAfterClear(xs) == { [ x EXCEPT !.stale = TRUE ] : x \in xs }

noteClear(h) ==
    [ h EXCEPT !.sinceClear = << >>,
               !.preClear = Range(h.issued),
               !.afterClear = "clear",
               !.supplied = EmptyRecord ]

KeyCResuming ==
    /\ KeyAccepted
    /\ CanCount
    /\ logBuffer' = clearAllBuffers(logBuffer)
    /\ outputCounter' = maybeShowHelp(outputCounter)
    /\ collectingPaused' = FALSE
    /\ hist' = noteClear(hist)
    /\ inflight' = staleAfterClear(inflight)
    /\ UNCHANGED << cfgVars, tabVars, sessVars, pageVars,
                    isSelectingTab, pending, lastDump, shutVars, httpConns >>

\* 'c': logBuffer.clearAllBuffers(); maybeShowHelp()
KeyC ==
    /\ KeyAccepted
    /\ CanCount
    /\ logBuffer' = clearAllBuffers(logBuffer)
    /\ outputCounter' = maybeShowHelp(outputCounter)
    /\ hist' = noteClear(hist)
    /\ inflight' = staleAfterClear(inflight)
    /\ UNCHANGED << cfgVars, tabVars, sessVars, pageVars, collectingPaused,
                    isSelectingTab, pending, lastDump, shutVars, httpConns >>

\* 's': join mode prints at once; open mode awaits browser.pages() first
KeyS ==
    /\ KeyAccepted
    /\ CanCount
    /\ IF mode = "open" /\ browser
       THEN /\ CanSuspend
            /\ pending' = Append(pending, Job("kbdStatus", 0, << >>, NoPage))
            /\ UNCHANGED outputCounter
       ELSE /\ outputCounter' = maybeShowHelp(outputCounter)
            /\ UNCHANGED pending
    /\ UNCHANGED << cfgVars, tabVars, sessVars, pageVars, collectingPaused,
                    isSelectingTab, bufVars, shutVars, httpConns, hist >>

KeyStatusDone(i) ==
    /\ Alive
    /\ i \in 1..Len(pending)
    /\ pending[i].kind = "kbdStatus"
    /\ pending' = RemoveAt(pending, i)
    /\ outputCounter' = maybeShowHelp(outputCounter)
    /\ UNCHANGED << cfgVars, tabVars, sessVars, pageVars, collectingPaused,
                    isSelectingTab, bufVars, shutVars, httpConns, hist >>

\* 'p': collectingPaused = !collectingPaused; maybeShowHelp()
togglePaused(paused) == ~paused

KeyP ==
    /\ KeyAccepted
    /\ CanCount
    /\ collectingPaused' = togglePaused(collectingPaused)
    /\ outputCounter' = maybeShowHelp(outputCounter)
    /\ UNCHANGED << cfgVars, tabVars, sessVars, pageVars, isSelectingTab, pending,
                    bufVars, shutVars, httpConns, hist >>

\* 'h': printHelp()
KeyH ==
    /\ KeyAccepted
    /\ UNCHANGED << cfgVars, tabVars, sessVars, pageVars, ctlVars, bufVars,
                    shutVars, httpConns, hist >>

\* 't': await switchTabs(); maybeShowHelp().  switchTabs() up to its
\* await browser.pages()
KeyT ==
    /\ KeyAccepted
    /\ CanCount
    /\ IF ~browser
       THEN /\ outputCounter' = maybeShowHelp(outputCounter)
            /\ UNCHANGED pending
       ELSE /\ CanSuspend
            /\ pending' = Append(pending, Job("kbdSwitch", 0, << >>, NoPage))
            /\ UNCHANGED outputCounter
    /\ UNCHANGED << cfgVars, tabVars, sessVars, pageVars, collectingPaused,
                    isSelectingTab, bufVars, shutVars, httpConns, hist >>

\* switchTabs() from browser.pages() to askUserToSelectPage(pages)
KbdSwitchPages(i) ==
    /\ Alive
    /\ i \in 1..Len(pending)
    /\ pending[i].kind = "kbdSwitch"
    /\ LET pages == switchCandidates
       IN IF Len(pages) <= 1
          THEN /\ pending' = RemoveAt(pending, i)
               /\ outputCounter' = maybeShowHelp(outputCounter)
               /\ UNCHANGED isSelectingTab
          ELSE /\ isSelectingTab' = TRUE
               /\ pending' = [ pending EXCEPT ![i] = Job("kbdPrompt", 0, pages, NoPage) ]
               /\ UNCHANGED outputCounter
    /\ UNCHANGED << cfgVars, tabVars, sessVars, pageVars, collectingPaused,
                    bufVars, shutVars, httpConns, hist >>

\* askUserToSelectPage resolves (choice 0: cancelled, null) and switchTabs()
\* runs to its end; then maybeShowHelp()
KbdSwitchAnswer(i, choice) ==
    /\ Alive
    /\ i \in 1..Len(pending)
    /\ pending[i].kind = "kbdPrompt"
    /\ choice \in 0..Len(pending[i].pages)
    /\ choice # 0 => RoomForSwitch
    /\ isSelectingTab' = FALSE
    /\ IF choice = 0
       THEN UNCHANGED << pageVars, logBuffer, hist >>
       ELSE switchTo(pending[i].pages[choice])
    /\ pending' = RemoveAt(pending, i)
    /\ outputCounter' = maybeShowHelp(outputCounter)
    /\ UNCHANGED << cfgVars, tabVars, sessVars, collectingPaused, lastDump,
                    inflight, shutVars, httpConns >>

\* switchTabs(): browser.pages() or askUserToSelectPage(pages) rejects and the
\* catch block runs; then maybeShowHelp()
KbdSwitchFailed(i) ==
    /\ Alive
    /\ i \in 1..Len(pending)
    /\ pending[i].kind \in { "kbdSwitch", "kbdPrompt" }
    /\ isSelectingTab' = FALSE
    /\ pending' = RemoveAt(pending, i)
    /\ outputCounter' = maybeShowHelp(outputCounter)
    /\ UNCHANGED << cfgVars, tabVars, sessVars, pageVars, collectingPaused,
                    bufVars, shutVars, httpConns, hist >>

(***************************************************************************)
(* HTTP commands (http-server.mjs) acting through the sharedHttpState      *)
(* callbacks the mode installs.                                            *)
(***************************************************************************)
HttpAccepted ==
    /\ Alive
    /\ httpServer = "listening"

\* setCollectingPaused: (v) => { collectingPaused = !!v; }
setCollectingPaused(v) == v

\* GET /stop, GET /start
HttpSetPaused(v) ==
    /\ HttpAccepted
    /\ collectingPaused' = setCollectingPaused(v)
    /\ UNCHANGED << cfgVars, tabVars, sessVars, pageVars, isSelectingTab,
                    outputCounter, pending, bufVars, shutVars, httpConns, hist >>

HttpStop == HttpSetPaused(TRUE)

HttpStart == HttpSetPaused(FALSE)

\* GET /clear
HttpClear ==
    /\ HttpAccepted
    /\ logBuffer' = clearAllBuffers(logBuffer)
    /\ hist' = noteClear(hist)
    /\ inflight' = staleAfterClear(inflight)
    /\ UNCHANGED << cfgVars, tabVars, sessVars, pageVars, ctlVars, lastDump,
                    shutVars, httpConns >>

\* GET /status and GET /tabs read the session and change nothing
HttpStatus ==
    /\ HttpAccepted
    /\ UNCHANGED << cfgVars, tabVars, sessVars, pageVars, ctlVars, bufVars,
                    shutVars, httpConns, hist >>

HttpTabs ==
    /\ HttpAccepted
    /\ UNCHANGED << cfgVars, tabVars, sessVars, pageVars, ctlVars, bufVars,
                    shutVars, httpConns, hist >>

\* GET /dump
HttpDump ==
    /\ HttpAccepted
    /\ CanSuspend
    /\ logBuffer' = dumpBuffersToFiles(logBuffer)
    /\ lastDump' = dumpArtifacts(logBuffer)
    /\ pending' = Append(pending, Job("httpDump", 0, << >>,
                     IF Len(monitoredPages) > 0 THEN monitoredPages[1] ELSE NoPage))
    /\ hist' = noteDump(hist)
    /\ UNCHANGED << cfgVars, tabVars, sessVars, pageVars, collectingPaused,
                    isSelectingTab, outputCounter, inflight, shutVars, httpConns >>

HttpDumpDone(i) ==
    /\ Alive
    /\ i \in 1..Len(pending)
    /\ pending[i].kind = "httpDump"
    /\ dumpRead(pending[i])
    /\ pending' = RemoveAt(pending, i)
    /\ UNCHANGED << cfgVars, tabVars, sessVars, pageVars, collectingPaused,
                    isSelectingTab, outputCounter, bufVars, shutVars, httpConns, hist >>

\* GET /tab?index=N: switchToTab(index) up to its await browser.pages()
HttpSwitch(index) ==
    /\ HttpAccepted
    /\ IF ~browser
       THEN /\ hist' = noteReply(hist, IF mode = "join" THEN "Browser not connected"
                                                          ELSE "Browser not ready")
            /\ UNCHANGED pending
       ELSE /\ CanSuspend
            /\ pending' = Append(pending, Job("httpSwitch", index, << >>, NoPage))
            /\ UNCHANGED hist
    /\ UNCHANGED << cfgVars, tabVars, sessVars, pageVars, collectingPaused,
                    isSelectingTab, outputCounter, bufVars, shutVars, httpConns >>

validIndexNever(index, pages) == FALSE

validIndex(index, pages) == ~(index < 1 \/ index > Len(pages))

\* switchToTab(index) from browser.pages() to its return
HttpSwitchPages(i) ==
    /\ Alive
    /\ i \in 1..Len(pending)
    /\ pending[i].kind = "httpSwitch"
    /\ LET pages == switchCandidates
           index == pending[i].index
       IN /\ validIndex(index, pages) => RoomForSwitch
          /\ IF validIndex(index, pages)
             THEN switchTo(pages[index])
             ELSE /\ hist' = noteReply(hist, "Invalid index")
                  /\ UNCHANGED << pageVars, logBuffer >>
    /\ pending' = RemoveAt(pending, i)
    /\ UNCHANGED << cfgVars, tabVars, sessVars, collectingPaused, isSelectingTab,
                    outputCounter, lastDump, inflight, shutVars, httpConns >>

\* README "Puppeteer whitelist"
PUPPETEER_WHITELIST ==
    { "content", "click", "focus", "goto", "hover", "pdf", "screenshot", "select",
      "setDefaultNavigationTimeout", "setDefaultTimeout", "setViewport", "title",
      "type", "url", "waitForSelector", "waitForTimeout" }

\* the method names a client sends, "page." stripped
Methods == { "goto", "title", "click", "evaluate", "close", "setCookie" }

isAllowedAlways(method) == TRUE

isAllowed(method) == method \in PUPPETEER_WHITELIST

\* page[method](...args): goto loads a user page, the other methods of the
\* whitelist leave the tab on its URL
callPage(p, method) ==
    /\ pageUrl' = IF method = "goto" THEN [ pageUrl EXCEPT ![p] = "user" ] ELSE pageUrl
    /\ openPages' = IF method = "close" THEN openPages \ { p } ELSE openPages
    /\ hist' = [ hist EXCEPT !.called = @ \cup { method } ]

\* POST /puppeteer { method, args }: a method outside the whitelist is
\* answered with an error
HttpPuppeteer(method) ==
    /\ HttpAccepted
    /\ Len(monitoredPages) > 0
    /\ IF isAllowed(method)
       THEN callPage(monitoredPages[1], method)
       ELSE UNCHANGED << tabVars, hist >>
    /\ UNCHANGED << cfgVars, sessVars, pageVars, ctlVars, bufVars, shutVars,
                    httpConns >>

(***************************************************************************)
(* Browser events.  An event reaches its handler only when its page is     *)
(* subscribed.                                                             *)
(***************************************************************************)
noteEvent(h, p) ==
    [ h EXCEPT !.afterClear = "event",
               !.stray = @ \/ (p = h.prev /\ p \notin listeners /\ ~collectingPaused) ]

noteStart(h, id, data) ==
    [ h EXCEPT !.issued = Append(@, id),
               !.sinceClear = Append(@, id),
               !.supplied = Spread(@, [ k \in {id} |-> << data >> ]) ]

noteUpdate(h, id, updates) ==
    IF id \in DOMAIN h.supplied
    THEN [ h EXCEPT !.supplied[id] = Append(@, updates) ]
    ELSE h

ConsoleEvent(p, message) ==
    /\ Alive
    /\ p \in openPages
    /\ RoomForConsole
    /\ logBuffer' = IF p \in listeners THEN onConsoleEvent(logBuffer, message)
                    ELSE logBuffer
    /\ hist' = noteEvent(hist, p)
    /\ UNCHANGED << cfgVars, tabVars, sessVars, pageVars, ctlVars, lastDump,
                    inflight, shutVars, httpConns >>

Exchange(p, id) == [ page |-> p, id |-> id, updates |-> 0, stale |-> FALSE ]

RequestEvent(p, data) ==
    /\ Alive
    /\ p \in openPages
    /\ RoomForRequest
    /\ LET delivered == p \in listeners /\ ~collectingPaused
           id == nextRequestId(logBuffer)
       IN /\ logBuffer' = IF p \in listeners THEN onRequestStarted(logBuffer, data)
                          ELSE logBuffer
          /\ inflight' = IF delivered THEN inflight \cup { Exchange(p, id) } ELSE inflight
          /\ hist' = IF delivered THEN noteStart(noteEvent(hist, p), id, data)
                     ELSE noteEvent(hist, p)
    /\ UNCHANGED << cfgVars, tabVars, sessVars, pageVars, ctlVars, lastDump,
                    shutVars, httpConns >>

\* a response or a failure of a request in flight
UpdateEvent(name, x, updates) ==
    /\ Alive
    /\ x \in inflight
    /\ LET delivered == x.page \in listeners /\ ~collectingPaused
       IN /\ logBuffer' = IF x.page \in listeners
                          THEN IF name = "response"
                               THEN onResponseReceived(logBuffer, x.id, updates)
                               ELSE onRequestFailed(logBuffer, x.id, updates)
                          ELSE logBuffer
          /\ hist' = IF delivered THEN noteUpdate(noteEvent(hist, x.page), x.id, updates)
                     ELSE noteEvent(hist, x.page)
    /\ inflight' = IF x.updates + 1 >= MaxUpdates
                   THEN inflight \ {x}
                   ELSE (inflight \ {x}) \cup { [ x EXCEPT !.updates = @ + 1 ] }
    /\ UNCHANGED << cfgVars, tabVars, sessVars, pageVars, ctlVars, lastDump,
                    shutVars, httpConns >>

ResponseEvent(x, updates) == UpdateEvent("response", x, updates)

FailureEvent(x, updates) == UpdateEvent("failure", x, updates)

(***************************************************************************)
(* The connection phase of runJoinMode and runOpenMode: in WSL the browser *)
(* runs on the Windows host and is found, reused or launched there; then   *)
(* the control connection is opened, and a failure leads to diagnostics.   *)
(***************************************************************************)
ProxyTypes == { "v4tov4", "v4tov6" }

Rule(type, port) == [ type |-> type, port |-> port ]

RulesFor(port) == { r \in portproxy : r.port = port }

\* scanChromeInstances(): the running instances with --remote-debugging-port,
\* one per port, in the order the processes are listed
scanChromeInstances(cs) ==
    LET debugged == { pid \in Running(cs) : cs[pid].port # NoPort }
        firstOfPort(pid) == \A q \in debugged : cs[q].port = cs[pid].port => pid <= q
    IN SelectSeq(SeqOfSet(debugged), firstOfPort)

\* instProfile.includes(word)
has(profile, word) == word \in profile

isExact(profile) ==
    \/ has(profile, "browsermonitor") /\ has(profile, "profileId")
    \/ has(profile, "puppeteer-monitor") /\ has(profile, "profileId")

isLegacy(profile) ==
    /\ has(profile, "projectName")
    /\ \/ has(profile, ".puppeteer-profile")
       \/ has(profile, "browsermonitor")
       \/ has(profile, "puppeteer-monitor")

NoMatch == [ found |-> FALSE, instance |-> NoPid, matchType |-> "none" ]

Match(found, instance, matchType) ==
    [ found |-> found, instance |-> instance, matchType |-> matchType ]

\* findProjectChrome(instances, projectDir): the first instance, in the order
\* of the list, whose profile matches exactly or by the legacy names; without
\* one, the first instance bound to 0.0.0.0, then the first instance
findProjectChrome(cs, instances) ==
    LET matching == { i \in 1..Len(instances) :
                        \/ isExact(cs[instances[i]].profile)
                        \/ isLegacy(cs[instances[i]].profile) }
        accessible == { i \in 1..Len(instances) :
                          cs[instances[i]].bindAddress = "0.0.0.0" }
    IN IF Len(instances) = 0 THEN NoMatch
       ELSE IF matching # {}
            THEN LET inst == instances[First(matching)]
                 IN Match(TRUE, inst,
                          IF isExact(cs[inst].profile) THEN "exact" ELSE "legacy")
       ELSE IF accessible # {}
            THEN Match(FALSE, instances[First(accessible)], "accessible")
       ELSE Match(FALSE, instances[1], "first")

findFreeDebugPortFixed(cs, instances, startPort) == startPort

\* findFreeDebugPort(instances, startPort)
findFreeDebugPort(cs, instances, startPort) ==
    LET usedPorts == { cs[instances[i]].port : i \in 1..Len(instances) }
        free == { port \in startPort..(startPort + PORT_RANGE - 1) : port \notin usedPorts }
    IN IF free = {} THEN startPort ELSE First(free)

Answers == { "y", "n", "" }

\* askYesNo(question): the operator's line, TRUE for yes
askYesNo(answer) == answer = "y"

\* Start-Process chrome.exe --remote-debugging-port=port --user-data-dir=<the
\* profile of this project>: a new instance, when the host has room for one
started(cs, port) ==
    LET room == { pid \in Pids : ~cs[pid].alive }
    IN IF room = {} THEN cs
       ELSE [ cs EXCEPT ![First(room)] = Chrome(TRUE, TRUE, TRUE, port) ]

\* When the launched Chrome listens: on the IPv4 or the IPv6 loopback
\* address, from the readyAt-th netstat on (MAX_POLLS + 1: not in time)
Binds == [ address : { "127.0.0.1", "::1" }, readyAt : 1..(MAX_POLLS + 1) ]

PromptBinds == { bind \in Binds : bind.readyAt = 1 }

\* for (let i = 0; i < 10; i++) { sleep 500 ms; netstat; if (chromeBindAddr)
\* break }, from its i-th round on
RECURSIVE pollBindAddress(_, _)
pollBindAddress(i, bind) ==
    IF i >= MAX_POLLS
    THEN [ polls |-> i, waited |-> i * POLL_DELAY, chromeBindAddress |-> "null",
           address |-> bind.address, readyAt |-> bind.readyAt ]
    ELSE IF bind.readyAt <= i + 1
         THEN [ polls |-> i + 1, waited |-> (i + 1) * POLL_DELAY,
                chromeBindAddress |-> bind.address,
                address |-> bind.address, readyAt |-> bind.readyAt ]
         ELSE pollBindAddress(i + 1, bind)

\* if (!chromeBindAddr) chromeBindAddr = '127.0.0.1'
assumeIPv4(detected) ==
    IF detected.chromeBindAddress = "null"
    THEN [ detected EXCEPT !.chromeBindAddress = "127.0.0.1" ]
    ELSE detected

detectBindAddress(bind) == assumeIPv4(pollBindAddress(0, bind))

\* chromeBindAddr === '::1' ? 'v4tov6' : 'v4tov4'
proxyTypeOf(chromeBindAddr) == IF chromeBindAddr = "::1" THEN "v4tov6" ELSE "v4tov4"

proxiedKeepingOld(rules, port, proxyType, elevated) ==
    IF elevated THEN rules \cup { Rule(proxyType, port) } ELSE rules

\* netsh interface portproxy delete v4tov4 ...; delete v4tov6 ...;
\* add <proxyType> listenport=port ...: without the rights to change the
\* rules each command fails and is passed over
proxied(rules, port, proxyType, elevated) ==
    IF elevated
    THEN { r \in rules : r.port # port } \cup { Rule(proxyType, port) }
    ELSE rules

\* process.exit(code)
exit(code) == [ shutdown EXCEPT !.pc = "exited", !.code = code ]

runVars == << tabVars, sessVars, pageVars, ctlVars, bufVars, cleanupDone,
              httpServer, timerFired, httpConns, hist >>

modeVars == << menu, mode, lazyMode, hardTimeout, launchedOnWindows >>

\* join mode: actualPort is the port given, or in WSL the port of the Chrome
\* that runs with the profile of this project, or else a free port
JoinDetect ==
    /\ Alive
    /\ mode = "join"
    /\ conn.pc = "start"
    /\ LET instances == scanChromeInstances(chromes)
           projectMatch == findProjectChrome(chromes, instances)
           freePort == findFreeDebugPort(chromes, instances, conn.port)
       IN conn' =
            IF ~conn.isWSL
            THEN [ conn EXCEPT !.pc = "connect", !.attempt = 1 ]
            ELSE IF projectMatch.found /\ projectMatch.instance # NoPid
                 THEN [ conn EXCEPT !.pc = "reachTest",
                                    !.match = projectMatch,
                                    !.actualPort = chromes[projectMatch.instance].port ]
                 ELSE IF conn.chromeFound
                      THEN [ conn EXCEPT !.pc = "askLaunch", !.match = projectMatch,
                                         !.actualPort = freePort ]
                      ELSE [ conn EXCEPT !.pc = "waitUser", !.match = projectMatch,
                                         !.actualPort = freePort ]
    /\ UNCHANGED << modeVars, chromes, portproxy, shutdown, runVars >>

\* fetch(`http://${connectHost}:${actualPort}/json/version`) settles
JoinReachable(isReachable) ==
    /\ Alive
    /\ mode = "join"
    /\ conn.pc = "reachTest"
    /\ conn' = IF isReachable
               THEN [ conn EXCEPT !.pc = "connect", !.attempt = 1 ]
               ELSE [ conn EXCEPT !.pc = "waitUser" ]
    /\ UNCHANGED << modeVars, chromes, portproxy, shutdown, runVars >>

\* 'Launch Chrome for this project?' is answered: on yes the managed Chrome
\* is killed and a new one is started on actualPort behind a forwarding rule
JoinLaunchAnswer(answer, bind) ==
    /\ Alive
    /\ conn.pc = "askLaunch"
    /\ IF askYesNo(answer) /\ conn.chromeFound
       THEN LET survivors == killPuppeteerMonitorChromes(chromes, FALSE)
            IN /\ chromes' = started(survivors, conn.actualPort)
               /\ portproxy' = proxied(portproxy, conn.actualPort,
                      proxyTypeOf(detectBindAddress(bind).chromeBindAddress),
                      conn.elevated)
               /\ conn' = [ conn EXCEPT !.pc = "launched",
                                        !.bind = detectBindAddress(bind),
                                        !.killed = @ \cup (Running(chromes)
                                                           \ Running(survivors)) ]
       ELSE /\ conn' = [ conn EXCEPT !.pc = "connect", !.attempt = 1 ]
            /\ UNCHANGED << chromes, portproxy >>
    /\ UNCHANGED << modeVars, shutdown, runVars >>

\* the 2500 ms wait after the launch is over
JoinLaunched ==
    /\ Alive
    /\ conn.pc = "launched"
    /\ mode = "join"
    /\ conn' = [ conn EXCEPT !.pc = "connect", !.attempt = 1 ]
    /\ UNCHANGED << modeVars, chromes, portproxy, shutdown, runVars >>

\* the operator presses a key at the 'waiting for Chrome' table, having
\* started Chrome on actualPort by hand or not
JoinUserReady(startedByHand) ==
    /\ Alive
    /\ conn.pc = "waitUser"
    /\ conn' = [ conn EXCEPT !.pc = "connect", !.attempt = 1 ]
    /\ LET room == { pid \in Pids : ~chromes[pid].alive }
       IN chromes' =
            IF startedByHand /\ room # {} /\ listener(chromes, conn.actualPort) = NoPid
            THEN [ chromes EXCEPT ![First(room)] =
                                      Chrome(TRUE, FALSE, FALSE, conn.actualPort) ]
            ELSE chromes
    /\ UNCHANGED << modeVars, portproxy, shutdown, runVars >>

\* findAvailablePort(): the first port from START_PORT on which nothing
\* listens on Windows, neither a browser nor a forwarding rule
findAvailablePort(cs, rules) ==
    LET free == { port \in START_PORT..MAX_PORT :
                    /\ listener(cs, port) = NoPid
                    /\ \A r \in rules : r.port # port }
    IN IF free = {} THEN START_PORT ELSE First(free)

\* open mode, WSL: Chrome is launched on Windows on a free port, with the
\* profile of this project and a forwarding rule; then the retry loop
launchOnWindows(cs, rules, bind) ==
    LET windowsDebugPort == findAvailablePort(cs, rules)
        detected == detectBindAddress(bind)
    IN /\ chromes' = started(cs, windowsDebugPort)
       /\ launchedOnWindows' = TRUE
       /\ portproxy' = proxied(rules, windowsDebugPort,
                               proxyTypeOf(detected.chromeBindAddress), conn.elevated)
       /\ conn' = [ conn EXCEPT !.pc = "wait", !.actualPort = windowsDebugPort,
                                !.bind = detected,
                                !.killed = @ \cup (Running(chromes) \ Running(cs)) ]

\* checkChromeRunning(): an instance with a debug port is probed, without
\* one Chrome is launched
scanOrLaunch(cs, bind) ==
    LET instances == scanChromeInstances(cs)
    IN IF Len(instances) > 0
       THEN /\ conn' = [ conn EXCEPT !.pc = "reachTest",
                                     !.actualPort = cs[instances[1]].port,
                                     !.killed = @ \cup (Running(chromes) \ Running(cs)) ]
            /\ chromes' = cs
            /\ UNCHANGED << launchedOnWindows, portproxy >>
       ELSE launchOnWindows(cs, portproxy, bind)

\* puppeteer.launch({ userDataDir: USER_DATA_DIR, ... }) resolves
launchNative ==
    LET room == { pid \in Pids : ~chromes[pid].alive }
        pid == First(room)
    IN /\ room # {}
       /\ chromes' = [ chromes EXCEPT ![pid] = Chrome(TRUE, FALSE, TRUE, conn.actualPort) ]
       /\ browser' = TRUE
       /\ mainPc' = "connected"
       /\ conn' = [ conn EXCEPT !.pc = "connected", !.attempt = 1, !.target = pid ]
       /\ UNCHANGED << launchedOnWindows, portproxy, shutdown >>

\* open mode up to its first await: native launch, or in WSL the kill of the
\* managed Chrome instances, the scan and possibly the launch on Windows
OpenDetect(bind) ==
    /\ Alive
    /\ mode = "open"
    /\ mainPc = "start"
    /\ conn.pc = "start"
    /\ IF ~conn.isWSL
       THEN launchNative
       ELSE /\ IF ~conn.chromeFound
               THEN /\ shutdown' = exit(1)
                    /\ conn' = [ conn EXCEPT !.pc = "exited", !.code = 1 ]
                    /\ UNCHANGED << chromes, launchedOnWindows, portproxy >>
               ELSE LET survivors == killPuppeteerMonitorChromes(chromes, FALSE)
                    IN IF survivors # chromes
                       THEN /\ chromes' = survivors
                            /\ conn' = [ conn EXCEPT !.pc = "killed",
                                            !.killed = @ \cup (Running(chromes)
                                                               \ Running(survivors)) ]
                            /\ UNCHANGED << launchedOnWindows, portproxy, shutdown >>
                       ELSE /\ scanOrLaunch(chromes, bind)
                            /\ UNCHANGED shutdown
            /\ UNCHANGED << browser, mainPc >>
    /\ UNCHANGED << menu, mode, lazyMode, hardTimeout, tabVars, keyboard, mainArg, pageVars,
                    ctlVars, bufVars, cleanupDone, httpServer, timerFired,
                    httpConns, hist >>

\* the 1000 ms wait after the kill is over
OpenKilled(bind) ==
    /\ Alive
    /\ conn.pc = "killed"
    /\ scanOrLaunch(chromes, bind)
    /\ UNCHANGED << menu, mode, lazyMode, hardTimeout, shutdown, runVars >>

\* the probe of the existing Chrome settles: it is used as it is, or a
\* forwarding rule is offered, or Chrome is launched
OpenReachable(ok, bind) ==
    /\ Alive
    /\ mode = "open"
    /\ conn.pc = "reachTest"
    /\ IF ok
       THEN /\ conn' = [ conn EXCEPT !.pc = "wait" ]
            /\ UNCHANGED << chromes, launchedOnWindows, portproxy >>
       ELSE IF Rule("v4tov4", conn.actualPort) \in portproxy
            THEN launchOnWindows(chromes, portproxy, bind)
            ELSE /\ conn' = [ conn EXCEPT !.pc = "askProxy" ]
                 /\ UNCHANGED << chromes, launchedOnWindows, portproxy >>
    /\ UNCHANGED << menu, mode, lazyMode, hardTimeout, shutdown, runVars >>

\* 'Try to set up port proxy now?' is answered, the rule is added and the
\* probe repeated
OpenProxyAnswer(answer, ok, bind) ==
    /\ Alive
    /\ conn.pc = "askProxy"
    /\ LET rules == IF askYesNo(answer) /\ conn.elevated
                    THEN portproxy \cup { Rule("v4tov4", conn.actualPort) }
                    ELSE portproxy
       IN IF askYesNo(answer) /\ ok
          THEN /\ conn' = [ conn EXCEPT !.pc = "wait" ]
               /\ portproxy' = rules
               /\ UNCHANGED << chromes, launchedOnWindows >>
          ELSE launchOnWindows(chromes, rules, bind)
    /\ UNCHANGED << menu, mode, lazyMode, hardTimeout, shutdown, runVars >>

\* await new Promise(r => setTimeout(r, RETRY_DELAY)) is over: the attempt
\* begins
RetryWait ==
    /\ Alive
    /\ conn.pc = "wait"
    /\ conn' = [ conn EXCEPT !.pc = "probe", !.attempt = @ + 1,
                             !.waited = @ + RETRY_DELAY,
                             !.trace = Append(@, "wait") ]
    /\ UNCHANGED << modeVars, chromes, portproxy, shutdown, runVars >>

attemptFailedOnce(c) == [ c EXCEPT !.pc = "diagnostics" ]

\* catch (e) { lastError = e } and the loop test; after the loop
\* if (lastError) the diagnostics run
attemptFailed(c) ==
    IF c.attempt < MAX_RETRIES
    THEN [ c EXCEPT !.pc = "wait" ]
    ELSE [ c EXCEPT !.pc = "diagnostics" ]

ProbeOutcomes == { "ok", "not ok", "unreachable" }

\* fetch(`${browserURL}/json/version`) settles: a response, ok or not, lets
\* the attempt go on; no response throws
Probe(outcome) ==
    /\ Alive
    /\ conn.pc = "probe"
    /\ outcome # "unreachable" => listener(chromes, conn.actualPort) # NoPid
    /\ LET probed == [ conn EXCEPT !.trace = Append(@, "probe") ]
       IN conn' = IF outcome = "unreachable"
                  THEN attemptFailed(probed)
                  ELSE [ probed EXCEPT !.pc = "connect" ]
    /\ UNCHANGED << modeVars, chromes, portproxy, shutdown, runVars >>

ConnectErrors == { "ECONNREFUSED", "timeout", "Protocol error" }

\* e.message.includes('ECONNREFUSED') || ... || e.message.includes('timeout')
isConnectivityError(err) == err \in { "ECONNREFUSED", "timeout" }

\* puppeteer.connect(...) rejects: open mode goes on with its loop, join
\* mode reports, runs the diagnostics in WSL, and exits
ConnectFailed(err) ==
    /\ Alive
    /\ mainPc = "start"
    /\ conn.pc = "connect"
    /\ LET tried == [ conn EXCEPT !.trace = Append(@, "connect") ]
       IN IF mode = "open"
          THEN /\ conn' = attemptFailed(tried)
               /\ UNCHANGED shutdown
          ELSE IF isConnectivityError(err) /\ conn.isWSL
               THEN /\ conn' = [ tried EXCEPT !.pc = "diagnostics" ]
                    /\ UNCHANGED shutdown
               ELSE /\ conn' = [ tried EXCEPT !.pc = "exited", !.code = 1 ]
                    /\ shutdown' = exit(1)
    /\ UNCHANGED << modeVars, chromes, portproxy, runVars >>

\* runWslDiagnostics(port, connectHost): a forwarding rule exists for the
\* port and no live process listens on it
runWslDiagnostics(port) ==
    [ ran |-> TRUE,
      hasPortProxyConflict |-> RulesFor(port) # {} /\ listener(chromes, port) = NoPid,
      actualPort |-> IF listener(chromes, port) = NoPid THEN NoPort ELSE port ]

\* the port handed to the diagnostics: `port` in join mode,
\* windowsDebugPort in open mode
diagnosedPort == IF mode = "join" THEN conn.port ELSE conn.actualPort

\* await runWslDiagnostics(...) resolves: the fix is offered, or exit(1)
Diagnostics ==
    /\ Alive
    /\ conn.pc = "diagnostics"
    /\ LET diagResult == runWslDiagnostics(diagnosedPort)
       IN IF diagResult.hasPortProxyConflict
          THEN /\ conn' = [ conn EXCEPT !.pc = "askFix", !.diag = diagResult ]
               /\ UNCHANGED shutdown
          ELSE /\ conn' = [ conn EXCEPT !.pc = "exited", !.diag = diagResult,
                                        !.code = 1 ]
               /\ shutdown' = exit(1)
    /\ UNCHANGED << modeVars, chromes, portproxy, runVars >>

\* diagResult.actualPort || port
fixPort == IF conn.diag.actualPort # NoPort THEN conn.diag.actualPort ELSE diagnosedPort

AutomaticFixUnasked(answer) ==
    /\ Alive
    /\ conn.pc = "askFix"
    /\ portproxy' = IF conn.elevated THEN portproxy \ { Rule("v4tov4", fixPort) }
                           ELSE portproxy
    /\ chromes' = killPuppeteerMonitorChromes(chromes, TRUE)
    /\ conn' = [ conn EXCEPT !.pc = "exited", !.answer = answer, !.code = 0,
                             !.fix = << "delete v4tov4", "kill", "Fix applied" >>,
                             !.killed = @ \cup (Running(chromes) \ Running(chromes')) ]
    /\ shutdown' = exit(0)
    /\ UNCHANGED << modeVars, runVars >>

\* 'Do you want me to fix this automatically?' is answered: on yes the
\* v4tov4 rule of the port is deleted, the managed Chrome is killed, the fix
\* is reported and the process exits with 0; otherwise it exits with 1
AutomaticFix(answer) ==
    /\ Alive
    /\ conn.pc = "askFix"
    /\ IF askYesNo(answer)
       THEN /\ portproxy' = IF conn.elevated THEN portproxy \ { Rule("v4tov4", fixPort) }
                           ELSE portproxy
            /\ chromes' = killPuppeteerMonitorChromes(chromes, TRUE)
            /\ conn' = [ conn EXCEPT !.pc = "exited", !.answer = answer, !.code = 0,
                            !.fix = << "delete v4tov4", "kill", "Fix applied" >>,
                            !.killed = @ \cup (Running(chromes) \ Running(chromes')) ]
            /\ shutdown' = exit(0)
       ELSE /\ conn' = [ conn EXCEPT !.pc = "exited", !.answer = answer, !.code = 1 ]
            /\ shutdown' = exit(1)
            /\ UNCHANGED << chromes, portproxy >>
    /\ UNCHANGED << modeVars, runVars >>

(***************************************************************************)
(* The session: initial state and next-state relation.                     *)
(***************************************************************************)
FirstKinds == { "user", "blank" }

UrlConfigs == { [ p \in Pages |-> IF p = 1 THEN k ELSE "user" ] : k \in FirstKinds }

\* open mode, realtime: printNetworkSeparator('PUPPETEER MONITOR STARTED');
\* logNetwork(`URL: ...`); logNetwork('')
startedLog(lb) ==
    logNetwork(logNetwork(printNetworkSeparator(lb, "PUPPETEER MONITOR STARTED"),
                          MonitorLine("URL")), MonitorLine(""))

SessionStartWith(h) ==
    /\ mode \in { "join", "open" }
    /\ lazyMode \in BOOLEAN
    /\ launchedOnWindows = FALSE
    /\ openPages = {1}
    /\ browser = FALSE
    /\ mainPc = "start"
    /\ keyboard = FALSE
    /\ page = NoPage
    /\ monitoredPages = << >>
    /\ activePageCleanup = NoPage
    /\ listeners = {}
    /\ inflight = {}
    /\ collectingPaused = FALSE
    /\ isSelectingTab = FALSE
    /\ outputCounter = 0
    /\ mainArg = << >>
    /\ pending = << >>
    /\ logBuffer = IF mode = "open" /\ ~lazyMode THEN startedLog(NewLogBuffer)
                   ELSE NewLogBuffer
    /\ lastDump = NoDump
    /\ cleanupDone = FALSE
    /\ shutdown = NoShutdown
    /\ httpConns = 0
    /\ timerFired = FALSE
    /\ hist = h

SessionStart == SessionStartWith(NoHist)

InitSession ==
    /\ pageUrl \in UrlConfigs
    /\ SessionStart

\* the defaults: no hard timeout, the HTTP listener on its port
Init ==
    /\ InitSession
    /\ chromes = OwnChrome
    /\ portproxy = {}
    /\ conn = Connecting
    /\ hardTimeout = FALSE
    /\ menu = NoMenu
    /\ httpServer = "listening"

RequestData == [ url |-> "v1" ]

ResponseData == [ status |-> "v1" ]

FailureData == [ status |-> "v2" ]

Startup ==
    \/ Connect(FALSE)
    \/ JoinInitialPages
    \/ \E choice \in 0..NumPages : JoinInitialAnswer(choice)
    \/ OpenInitialPage
    \/ PageLoaded
    \/ ListTabsToClose
    \/ CloseNextTab
    \/ OpenReady
    \/ \E p \in Pages : NewTab(p)

SwitchCommands ==
    \/ KeyT
    \/ \E i \in 1..MaxPending : KbdSwitchPages(i)
    \/ \E i \in 1..MaxPending, choice \in 0..NumPages : KbdSwitchAnswer(i, choice)
    \/ \E index \in 0..(NumPages + 1) : HttpSwitch(index)
    \/ \E i \in 1..MaxPending : HttpSwitchPages(i)

PauseCommands ==
    \/ KeyP
    \/ HttpStop
    \/ HttpStart

BufferCommands ==
    \/ KeyD
    \/ \E i \in 1..MaxPending : KeyDumpDone(i)
    \/ KeyC
    \/ HttpClear
    \/ HttpDump
    \/ \E i \in 1..MaxPending : DumpArtifact(i)
    \/ \E i \in 1..MaxPending : HttpDumpDone(i)

ReadCommands ==
    \/ KeyS
    \/ \E i \in 1..MaxPending : KeyStatusDone(i)
    \/ KeyH
    \/ HttpStatus
    \/ HttpTabs

\* The events of the session specification: every open page emits console
\* messages and requests, the requests in flight are answered.
BrowserEvents ==
    \/ \E p \in Pages : ConsoleEvent(p, "plain")
    \/ /\ Len(hist.issued) < SessionRequests
       /\ \E p \in Pages : RequestEvent(p, RequestData)
    \/ \E x \in inflight : ResponseEvent(x, ResponseData)

ShutdownSteps ==
    \/ Sigint
    \/ Sigterm
    \/ KeyCtrlC
    \/ KeyQ
    \/ KeyK
    \/ \E msg \in ErrorMessages : UncaughtException(msg)
    \/ HardTimeoutFires
    \/ HttpConnOpen
    \/ HttpConnEnd
    \/ HttpClosed
    \/ BrowserClosed

Next ==
    \/ Startup
    \/ SwitchCommands
    \/ PauseCommands
    \/ ReadCommands
    \/ BrowserEvents

Spec == Init /\ [][Next]_vars

(***************************************************************************)
(* The control plane: every command, on a session whose pages only write   *)
(* to the console.                                                         *)
(***************************************************************************)
UserPages == [ p \in Pages |-> "user" ]

InitControl ==
    /\ Init
    /\ pageUrl = UserPages

NextControl ==
    \/ Startup
    \/ SwitchCommands
    \/ PauseCommands
    \/ ReadCommands
    \/ BufferCommands
    \/ \E p \in Pages : ConsoleEvent(p, "plain")

SpecControl == InitControl /\ [][NextControl]_vars

(***************************************************************************)
(* Uncaught errors of a capturing session, before and during its shutdown. *)
(***************************************************************************)
NextErrors ==
    \/ Startup
    \/ PauseCommands
    \/ \E p \in Pages : ConsoleEvent(p, "plain")
    \/ \E msg \in ErrorMessages : UncaughtException(msg)
    \/ Sigint
    \/ HttpClosed

SpecErrors == Init /\ [][NextErrors]_vars

(***************************************************************************)
(* Page commands sent to the HTTP listener while the session captures.     *)
(***************************************************************************)
NextPuppeteer ==
    \/ Startup
    \/ PauseCommands
    \/ \E method \in Methods : HttpPuppeteer(method)
    \/ \E p \in Pages : ConsoleEvent(p, "plain")

SpecPuppeteer == Init /\ [][NextPuppeteer]_vars

(***************************************************************************)
(* The interactive menu (monitor/interactive-mode.mjs): o, j and q before  *)
(* a mode runs.  A join flow waits at await getChromeInstances(), at the   *)
(* wait-for-Chrome prompt or at the 'Select Chrome instance' prompt.       *)
(***************************************************************************)
MaxFlows == 2        \* join flows of the menu suspended at the same time

Keys == { "o", "j", "q", "1", "2", "x" }

\* getChromeInstances(): the ports with a debuggable browser
getChromeInstances(cs) ==
    LET instances == scanChromeInstances(cs)
    IN [ i \in 1..Len(instances) |-> cs[instances[i]].port ]

\* process.stdin.removeAllListeners('keypress'); await runOpenMode(...) or
\* await runJoinMode(port, ...)
startMode(m, name) ==
    [ m EXCEPT !.listening = FALSE, !.started = Append(@, name) ]

\* the handler past await getChromeInstances(): the wait-for-Chrome prompt
\* without an instance, the port of a single instance at once, else the
\* 'Select Chrome instance' prompt
scanned(m, items) ==
    IF Len(items) = 0 THEN [ m EXCEPT !.flows = Append(@, "wait") ]
    ELSE IF Len(items) = 1 THEN startMode(m, "join")
    ELSE [ m EXCEPT !.flows = Append(@, "select") ]

\* the menu's keypress handler; on a native host the scan of j waits for
\* its fetches, in WSL it is done when the handler suspends
menuKey(m, char) ==
    IF char = "q" THEN [ m EXCEPT !.exited = TRUE ]
    ELSE IF char = "o" THEN startMode(m, "open")
    ELSE IF char = "j"
         THEN IF conn.isWSL THEN scanned(m, getChromeInstances(chromes))
              ELSE [ m EXCEPT !.flows = Append(@, "scan") ]
    ELSE m

isSelect(flow) == flow = "select"

notSelect(flow) == flow # "select"

isValidChoice(char, items) ==
    \/ char = "1" /\ Len(items) >= 1
    \/ char = "2" /\ Len(items) >= 2

RECURSIVE resolveAll(_, _, _)
\* handleKey of askUserToSelectChromeInstance, once for each prompt that
\* waits: q and an invalid key resolve null and the flow returns, a valid
\* digit resolves the port and the flow starts join mode
resolveAll(m, n, valid) ==
    IF n = 0 THEN m
    ELSE resolveAll(IF valid THEN startMode(m, "join") ELSE m, n - 1, valid)

selectKey(m, char) ==
    LET n == Len(SelectSeq(m.flows, isSelect))
        others == [ m EXCEPT !.flows = SelectSeq(@, notSelect) ]
    IN resolveAll(others, n, isValidChoice(char, getChromeInstances(chromes)))

\* the session variables of the first mode started
modeStarted(m) ==
    IF menu.started = << >> /\ m.started # << >>
    THEN /\ mode' = m.started[1]
         /\ mainPc' = "start"
    ELSE UNCHANGED << mode, mainPc >>

menuVars == << lazyMode, hardTimeout, launchedOnWindows, pageUrl, openPages, browser,
               keyboard, page, monitoredPages, activePageCleanup, listeners,
               inflight, collectingPaused, isSelectingTab, outputCounter, mainArg,
               pending, logBuffer, lastDump, cleanupDone, httpServer, httpConns,
               timerFired, chromes, portproxy, conn, hist >>

\* a key in raw mode: the 'keypress' event reaches the listeners in the
\* order they were added, the menu's handler first, then the prompts'
MenuKey(char) ==
    /\ Alive
    /\ ~menu.exited
    /\ menu.listening \/ \E i \in 1..Len(menu.flows) : menu.flows[i] = "select"
    /\ char = "j" /\ menu.listening => Len(menu.flows) < MaxFlows
    /\ LET afterMenu == IF menu.listening THEN menuKey(menu, char) ELSE menu
           after == IF afterMenu.exited THEN afterMenu
                    ELSE LET kept == [ afterMenu EXCEPT !.flows = menu.flows ]
                             new == SubSeq(afterMenu.flows, Len(menu.flows) + 1,
                                           Len(afterMenu.flows))
                             resolved == selectKey(kept, char)
                         IN [ resolved EXCEPT !.flows = @ \o new ]
       IN /\ menu' = after
          /\ shutdown' = IF after.exited THEN exit(0) ELSE shutdown
          /\ modeStarted(after)
    /\ UNCHANGED menuVars

\* await getChromeInstances() of a join flow settles
ScanDone(i) ==
    /\ Alive
    /\ i \in 1..Len(menu.flows)
    /\ menu.flows[i] = "scan"
    /\ LET rest == [ menu EXCEPT !.flows = RemoveAt(@, i) ]
           after == scanned(rest, getChromeInstances(chromes))
       IN /\ menu' = after
          /\ modeStarted(after)
    /\ UNCHANGED << menuVars, shutdown >>

\* a line entered at the wait-for-Chrome prompt: its characters are keypress
\* events for the menu's handler, then the prompt resolves and the flow
\* scans again
WaitLine(i, char) ==
    /\ Alive
    /\ ~menu.exited
    /\ i \in 1..Len(menu.flows)
    /\ menu.flows[i] = "wait"
    /\ char = "j" /\ menu.listening => Len(menu.flows) < MaxFlows
    /\ LET afterMenu == IF menu.listening THEN menuKey(menu, char) ELSE menu
           after == IF afterMenu.exited THEN afterMenu
                    ELSE [ afterMenu EXCEPT !.flows[i] = "scan" ]
       IN /\ menu' = after
          /\ shutdown' = IF after.exited THEN exit(0) ELSE shutdown
          /\ modeStarted(after)
    /\ UNCHANGED menuVars

\* a browser with a debug port starts or stops on the host
HostChanges(cs) ==
    /\ Alive
    /\ cs # chromes
    /\ chromes' = cs
    /\ UNCHANGED << menu, mode, lazyMode, hardTimeout, launchedOnWindows, tabVars,
                    sessVars, pageVars, ctlVars, bufVars, shutVars, httpConns,
                    portproxy, conn, hist >>

MenuHosts ==
    { [ pid \in Pids |-> IF pid <= n THEN ChromeOn(TRUE, FALSE, NoProfile, "127.0.0.1",
                                                   START_PORT + pid - 1)
                         ELSE NoChrome ] : n \in 0..NumChromes }

InitMenu ==
    /\ SessionStart
    /\ pageUrl = UserPages
    /\ hardTimeout = FALSE
    /\ httpServer = "listening"
    /\ portproxy = {}
    /\ chromes \in MenuHosts
    /\ \E isWSL \in BOOLEAN : conn = [ NoConn EXCEPT !.isWSL = isWSL ]
    /\ menu = [ NoMenu EXCEPT !.listening = TRUE ]

NextMenu ==
    \/ \E char \in Keys : MenuKey(char)
    \/ \E i \in 1..MaxFlows : ScanDone(i)
    \/ \E i \in 1..MaxFlows, char \in Keys : WaitLine(i, char)
    \/ \E cs \in MenuHosts : HostChanges(cs)

SpecMenu == InitMenu /\ [][NextMenu]_vars

(***************************************************************************)
(* Tab listing and switching on a browser whose tabs show any kind of URL. *)
(***************************************************************************)
InitTabs ==
    /\ pageUrl \in [ Pages -> UrlKinds ]
    /\ SessionStart
    /\ chromes = OwnChrome
    /\ portproxy = {}
    /\ conn = Connecting
    /\ hardTimeout = FALSE
    /\ menu = NoMenu
    /\ httpServer = "listening"

NextTabs ==
    \/ Startup
    \/ SwitchCommands
    \/ HttpTabs

SpecTabs == InitTabs /\ [][NextTabs]_vars

(***************************************************************************)
(* Switch-page over HTTP from the start of a session, before the browser   *)
(* is connected and after, with the result of each command kept.           *)
(***************************************************************************)
InitSwitch ==
    /\ pageUrl \in [ Pages -> { "user", "blank", "chrome" } ]
    /\ SessionStartWith([ NoHist EXCEPT !.reply = "none" ])
    /\ chromes = OwnChrome
    /\ portproxy = {}
    /\ conn = Connecting
    /\ hardTimeout = FALSE
    /\ menu = NoMenu
    /\ httpServer = "listening"

NextSwitch ==
    \/ Startup
    \/ \E index \in 0..(NumPages + 1) : HttpSwitch(index)
    \/ \E i \in 1..MaxPending : HttpSwitchPages(i)
    \/ PauseCommands
    \/ \E p \in Pages : ConsoleEvent(p, "plain")

SpecSwitch == InitSwitch /\ [][NextSwitch]_vars

(***************************************************************************)
(* The buffers of a ready session: join mode on a browser with one tab,    *)
(* after Connect and JoinInitialPages.                                     *)
(***************************************************************************)
ReadySession ==
    /\ mode = "join"
    /\ lazyMode \in BOOLEAN
    /\ hardTimeout = FALSE
    /\ menu = NoMenu
    /\ launchedOnWindows = FALSE
    /\ chromes = OwnChrome
    /\ portproxy = {}
    /\ conn = [ Connecting EXCEPT !.pc = "connected", !.target = 1 ]
    /\ pageUrl = UserPages
    /\ openPages = {1}
    /\ browser = TRUE
    /\ mainPc = "ready"
    /\ keyboard = TRUE
    /\ page = NoPage
    /\ monitoredPages = << 1 >>
    /\ activePageCleanup = 1
    /\ listeners = { 1 }
    /\ inflight = {}
    /\ collectingPaused = FALSE
    /\ isSelectingTab = FALSE
    /\ mainArg = << >>
    /\ pending = << >>
    /\ lastDump = NoDump
    /\ cleanupDone = FALSE
    /\ shutdown = NoShutdown
    /\ httpServer = "listening"
    /\ httpConns = 0
    /\ timerFired = FALSE

\* printConsoleSeparator / printNetworkSeparator('CONNECTED ...')
connectedLog ==
    printNetworkSeparator(printConsoleSeparator(NewLogBuffer, "CONNECTED"), "CONNECTED")

InitReady ==
    /\ ReadySession
    /\ logBuffer = connectedLog
    /\ outputCounter = 0
    /\ hist = [ NoHist EXCEPT !.selected = TRUE ]

NextBuffer ==
    \/ BufferCommands
    \/ PauseCommands
    \/ \E p \in Pages : ConsoleEvent(p, "plain")
    \/ \E p \in Pages : RequestEvent(p, RequestData)
    \/ \E x \in inflight : ResponseEvent(x, ResponseData)

SpecBuffer == InitReady /\ [][NextBuffer]_vars

(***************************************************************************)
(* Dumps among switches: a ready session of either mode with a second tab, *)
(* where a dump and a switch-page command can wait at an await together.   *)
(***************************************************************************)
\* a ready session of either mode on tab 1
ReadyOn(tabs, paused, slots) ==
    /\ mode \in { "join", "open" }
    /\ hardTimeout = FALSE
    /\ menu = NoMenu
    /\ launchedOnWindows = FALSE
    /\ chromes = OwnChrome
    /\ portproxy = {}
    /\ conn = [ Connecting EXCEPT !.pc = "connected", !.target = 1 ]
    /\ pageUrl = UserPages
    /\ openPages = tabs
    /\ browser = TRUE
    /\ mainPc = "ready"
    /\ keyboard = TRUE
    /\ page = IF mode = "open" THEN 1 ELSE NoPage
    /\ monitoredPages = << 1 >>
    /\ activePageCleanup = 1
    /\ listeners = { 1 }
    /\ inflight = {}
    /\ collectingPaused = paused
    /\ isSelectingTab = FALSE
    /\ outputCounter = 0
    /\ mainArg = << >>
    /\ pending = << >>
    /\ logBuffer = connectedLog
    /\ lastDump = NoDump
    /\ cleanupDone = FALSE
    /\ shutdown = NoShutdown
    /\ httpServer = "listening"
    /\ httpConns = 0
    /\ timerFired = FALSE
    /\ hist = [ NoHist EXCEPT !.selected = TRUE, !.slots = slots ]

InitDump ==
    /\ lazyMode = TRUE
    /\ ReadyOn(Pages, FALSE, MaxOverlap)

NextDump ==
    \/ KeyD
    \/ HttpDump
    \/ \E i \in 1..MaxOverlap : DumpArtifact(i)
    \/ \E i \in 1..MaxOverlap : KeyDumpDone(i)
    \/ \E i \in 1..MaxOverlap : HttpDumpDone(i)
    \/ KeyT
    \/ \E i \in 1..MaxOverlap : KbdSwitchPages(i)
    \/ \E i \in 1..MaxOverlap, choice \in 0..NumPages : KbdSwitchAnswer(i, choice)
    \/ \E index \in 0..(NumPages + 1) : HttpSwitch(index)
    \/ \E i \in 1..MaxOverlap : HttpSwitchPages(i)

SpecDump == InitDump /\ [][NextDump]_vars

(***************************************************************************)
(* A paused session: the commands and the events of a session whose        *)
(* capture has been stopped and is not resumed.                            *)
(***************************************************************************)
InitPaused ==
    /\ lazyMode \in BOOLEAN
    /\ ReadyOn({1}, TRUE, MaxPending)

NextPaused ==
    \/ \E p \in Pages : NewTab(p)
    \/ SwitchCommands
    \/ ReadCommands
    \/ KeyD
    \/ HttpDump
    \/ \E i \in 1..MaxPending : DumpArtifact(i)
    \/ \E i \in 1..MaxPending : KeyDumpDone(i)
    \/ \E i \in 1..MaxPending : HttpDumpDone(i)
    \/ \E p \in Pages : ConsoleEvent(p, "plain")
    \/ \E p \in Pages : RequestEvent(p, RequestData)

SpecPaused == InitPaused /\ [][NextPaused]_vars

(***************************************************************************)
(* The tab prompt: the keys of a ready session with two tabs, where a      *)
(* second t can be pressed before the first switchTabs() has listed the    *)
(* pages, and where the listing or the prompt can fail.                    *)
(***************************************************************************)
InitSelect ==
    /\ lazyMode = TRUE
    /\ ReadyOn(Pages, FALSE, MaxOverlap)

NextSelect ==
    \/ KeyT
    \/ \E i \in 1..MaxOverlap : KbdSwitchPages(i)
    \/ \E i \in 1..MaxOverlap, choice \in 0..NumPages : KbdSwitchAnswer(i, choice)
    \/ \E i \in 1..MaxOverlap : KbdSwitchFailed(i)
    \/ KeyD
    \/ \E i \in 1..MaxOverlap : DumpArtifact(i)
    \/ \E i \in 1..MaxOverlap : KeyDumpDone(i)
    \/ KeyC
    \/ KeyP
    \/ KeyS
    \/ \E i \in 1..MaxOverlap : KeyStatusDone(i)
    \/ KeyH
    \/ KeyQ
    \/ KeyK
    \/ KeyCtrlC

SpecSelect == InitSelect /\ [][NextSelect]_vars

(***************************************************************************)
(* The reminder: a ready join-mode session that has printed its status n   *)
(* times (the key s), and every command of the keyboard and of HTTP.       *)
(***************************************************************************)
StatusKeysBefore == 0..(2 * HELP_INTERVAL)

InitHelp ==
    /\ ReadySession
    /\ logBuffer = connectedLog
    /\ \E n \in StatusKeysBefore :
          /\ outputCounter = n
          /\ hist = [ NoHist EXCEPT !.selected = TRUE, !.counted = n ]

NextHelp ==
    \/ \E p \in Pages : NewTab(p)
    \/ SwitchCommands
    \/ PauseCommands
    \/ KeyS
    \/ KeyH
    \/ HttpStatus
    \/ HttpTabs
    \/ BufferCommands

SpecHelp == InitHelp /\ [][NextHelp]_vars

(***************************************************************************)
(* Long sessions: a ready join-mode session that has recorded n requests   *)
(* of its page, and the requests that follow.                              *)
(***************************************************************************)
\* the buffer after n request-starts of the monitored page, none paused:
\* onRequestStarted n times
recordedRequests(lb, n) ==
    LET ids == [ i \in 1..n |-> PadStart(Digits(i), ID_WIDTH) ]
        lines == [ i \in 1..n |-> RequestLine(ids[i]) ]
    IN IF lazyMode
       THEN [ lb EXCEPT !.requestCounter = n,
                        !.requestDetails = [ id \in Range(ids) |-> RequestData ],
                        !.networkBuffer = @ \o lines ]
       ELSE [ lb EXCEPT !.requestCounter = n,
                        !.NETWORK_DIR = [ id \in Range(ids) |-> JsonRoundTrip(RequestData) ],
                        !.NETWORK_LOG = @ \o lines ]

RequestsBefore == { 0, 9, 99, 998, 999 }

InitLong ==
    /\ ReadySession
    /\ outputCounter = 0
    /\ \E n \in RequestsBefore :
          /\ logBuffer = recordedRequests(connectedLog, n)
          /\ hist = [ NoHist EXCEPT !.selected = TRUE, !.recorded = n ]

NextLong ==
    \/ PauseCommands
    \/ \E p \in Pages : ConsoleEvent(p, "plain")
    \/ \E p \in Pages : RequestEvent(p, RequestData)
    \/ \E x \in inflight : ResponseEvent(x, ResponseData)

SpecLong == InitLong /\ [][NextLong]_vars

(***************************************************************************)
(* The exchange ids of a ready session: request-starts among the commands  *)
(* that could touch the counter.                                           *)
(***************************************************************************)
NextIds ==
    \/ HttpClear
    \/ HttpDump
    \/ \E i \in 1..MaxPending : DumpArtifact(i)
    \/ \E i \in 1..MaxPending : HttpDumpDone(i)
    \/ HttpStop
    \/ HttpStart
    \/ \E p \in Pages : NewTab(p)
    \/ \E index \in 0..(NumPages + 1) : HttpSwitch(index)
    \/ \E i \in 1..MaxPending : HttpSwitchPages(i)
    \/ \E p \in Pages : ConsoleEvent(p, "plain")
    \/ \E p \in Pages : RequestEvent(p, RequestData)

SpecIds == InitReady /\ [][NextIds]_vars

(***************************************************************************)
(* The record of one exchange under every choice of field maps.            *)
(***************************************************************************)
FieldKeys == { "url", "status" }

FieldValues == { "v1", "v2", Undefined }

FieldMaps == UNION { [ ks -> FieldValues ] : ks \in SUBSET FieldKeys }

NextMerge ==
    \/ /\ Len(hist.issued) < SessionRequests
       /\ \E p \in Pages, data \in FieldMaps : RequestEvent(p, data)
    \/ \E x \in inflight, updates \in FieldMaps : ResponseEvent(x, updates)
    \/ \E x \in inflight, updates \in FieldMaps : FailureEvent(x, updates)
    \/ KeyC
    \/ KeyP

SpecMerge == InitReady /\ [][NextMerge]_vars

(***************************************************************************)
(* Console filter: every kind of message from every open tab, with and     *)
(* without configured ignore patterns, among pause, resume and clear.      *)
(***************************************************************************)
ConfiguredPatterns ==
    { << >>, << << "noise" >> >>, << << "log", "noise" >>, << "hmr", "update" >> >> }

InitFilter ==
    /\ mode = "join"
    /\ lazyMode \in BOOLEAN
    /\ hardTimeout = FALSE
    /\ menu = NoMenu
    /\ launchedOnWindows = FALSE
    /\ chromes = OwnChrome
    /\ portproxy = {}
    /\ conn = [ Connecting EXCEPT !.pc = "connected", !.target = 1 ]
    /\ pageUrl = UserPages
    /\ openPages = {1}
    /\ browser = TRUE
    /\ mainPc = "ready"
    /\ keyboard = TRUE
    /\ page = NoPage
    /\ monitoredPages = << 1 >>
    /\ activePageCleanup = 1
    /\ listeners = { 1 }
    /\ inflight = {}
    /\ collectingPaused = FALSE
    /\ isSelectingTab = FALSE
    /\ outputCounter = 0
    /\ mainArg = << >>
    /\ pending = << >>
    /\ \E configured \in ConfiguredPatterns :
           logBuffer = NewLogBufferWith(configured)
    /\ lastDump = NoDump
    /\ cleanupDone = FALSE
    /\ shutdown = NoShutdown
    /\ httpServer = "listening"
    /\ httpConns = 0
    /\ timerFired = FALSE
    /\ hist = [ NoHist EXCEPT !.selected = TRUE ]

NextFilter ==
    \/ \E p \in Pages, message \in MessageKinds : ConsoleEvent(p, message)
    \/ \E p \in Pages : NewTab(p)
    \/ KeyP
    \/ HttpStop
    \/ HttpStart
    \/ KeyC

SpecFilter == InitFilter /\ [][NextFilter]_vars

(***************************************************************************)
(* Connection phase: both modes, native and WSL, every host with up to     *)
(* NumChromes browser instances and up to two forwarding rules.            *)
(***************************************************************************)
\* an instance is absent, the operator's own Chrome (with or without a debug
\* port), or a managed Chrome of this or of another project
Instances ==
    { NoChrome }
        \cup { Chrome(TRUE, FALSE, FALSE, port) : port \in Ports \cup { NoPort } }
        \cup { Chrome(TRUE, TRUE, project, port) : project \in BOOLEAN, port \in Ports }

\* no two running instances listen on the same port
Hosts ==
    { cs \in [ Pids -> Instances ] :
        \A p, q \in Running(cs) : p # q /\ cs[p].port # NoPort => cs[p].port # cs[q].port }

AllRules == { Rule(type, port) : type \in ProxyTypes, port \in Ports }

RuleSets == { rules \in SUBSET AllRules : Cardinality(rules) <= 2 }

InitConnect ==
    /\ InitSession
    /\ lazyMode = TRUE
    /\ pageUrl = UserPages
    /\ hardTimeout = FALSE
    /\ menu = NoMenu
    /\ httpServer = "listening"
    /\ chromes \in Hosts
    /\ portproxy \in RuleSets
    /\ \E isWSL, chromeFound \in BOOLEAN, port \in Ports :
           conn = [ NoConn EXCEPT !.isWSL = isWSL, !.chromeFound = chromeFound,
                                  !.port = port, !.actualPort = port ]

NextConnect ==
    \/ JoinDetect
    \/ \E isReachable \in BOOLEAN : JoinReachable(isReachable)
    \/ \E answer \in Answers, bind \in PromptBinds : JoinLaunchAnswer(answer, bind)
    \/ JoinLaunched
    \/ \E startedByHand \in BOOLEAN : JoinUserReady(startedByHand)
    \/ \E bind \in PromptBinds : OpenDetect(bind)
    \/ \E bind \in PromptBinds : OpenKilled(bind)
    \/ \E ok \in BOOLEAN, bind \in PromptBinds : OpenReachable(ok, bind)
    \/ \E answer \in Answers, ok \in BOOLEAN, bind \in PromptBinds :
           OpenProxyAnswer(answer, ok, bind)
    \/ RetryWait
    \/ \E outcome \in ProbeOutcomes : Probe(outcome)
    \/ Connect(launchedOnWindows)
    \/ \E err \in ConnectErrors : ConnectFailed(err)
    \/ Diagnostics
    \/ \E answer \in Answers : AutomaticFix(answer)

SpecConnect == InitConnect /\ [][NextConnect]_vars

(***************************************************************************)
(* The scan of the host in join mode in WSL: every list of instances, with *)
(* every profile naming and bind address, is matched against the project.  *)
(***************************************************************************)
hasMarker(profile) == has(profile, "browsermonitor") \/ has(profile, "puppeteer-monitor")

ScannedInstances ==
    { NoChrome }
        \cup { ChromeOn(TRUE, hasMarker(profile), profile, bindAddress, port) :
                 profile \in Profiles, bindAddress \in BindAddresses,
                 port \in Ports \cup { NoPort } }

ScannedHosts ==
    { cs \in [ Pids -> ScannedInstances ] :
        \A p, q \in Running(cs) : p # q /\ cs[p].port # NoPort => cs[p].port # cs[q].port }

InitScan ==
    /\ InitSession
    /\ mode = "join"
    /\ lazyMode = TRUE
    /\ pageUrl = UserPages
    /\ hardTimeout = FALSE
    /\ menu = NoMenu
    /\ httpServer = "listening"
    /\ chromes \in ScannedHosts
    /\ portproxy = {}
    /\ \E chromeFound \in BOOLEAN, port \in Ports :
           conn = [ NoConn EXCEPT !.isWSL = TRUE, !.chromeFound = chromeFound,
                                  !.port = port, !.actualPort = port ]

NextScan ==
    \/ JoinDetect
    \/ \E isReachable \in BOOLEAN : JoinReachable(isReachable)
    \/ \E startedByHand \in BOOLEAN : JoinUserReady(startedByHand)

SpecScan == InitScan /\ [][NextScan]_vars

(***************************************************************************)
(* The choice of a free port on a host that runs up to a whole range of    *)
(* instances of other programs, one per port from START_PORT on.           *)
(***************************************************************************)
\* n instances on the ports from START_PORT on, the one of number gap stopped
rangeHost(n, gap) ==
    [ pid \in 1..n |-> ChromeOn(pid # gap, FALSE, NoProfile, "127.0.0.1",
                                START_PORT + pid - 1) ]

PortHosts == { rangeHost(n, gap) : n \in 0..(PORT_RANGE + NumPorts), gap \in 0..2 }

InitPorts ==
    /\ InitSession
    /\ mode = "join"
    /\ lazyMode = TRUE
    /\ pageUrl = UserPages
    /\ hardTimeout = FALSE
    /\ menu = NoMenu
    /\ httpServer = "listening"
    /\ chromes \in PortHosts
    /\ portproxy = {}
    /\ \E chromeFound \in BOOLEAN, port \in Ports :
           conn = [ NoConn EXCEPT !.isWSL = TRUE, !.chromeFound = chromeFound,
                                  !.port = port, !.actualPort = port ]

NextPorts == JoinDetect

SpecPorts == InitPorts /\ [][NextPorts]_vars

(***************************************************************************)
(* Join mode in WSL from the scan to the connection, on the hosts of the   *)
(* connection phase and on a host whose instances take the whole range of  *)
(* ports that findFreeDebugPort searches.                                  *)
(***************************************************************************)
FullHost == rangeHost(PORT_RANGE + NumPorts, 0)

InitAdopt ==
    /\ InitSession
    /\ mode = "join"
    /\ lazyMode = TRUE
    /\ pageUrl = UserPages
    /\ hardTimeout = FALSE
    /\ menu = NoMenu
    /\ httpServer = "listening"
    /\ chromes \in Hosts \cup { FullHost }
    /\ portproxy = {}
    /\ \E chromeFound \in BOOLEAN, port \in Ports :
           conn = [ NoConn EXCEPT !.isWSL = TRUE, !.chromeFound = chromeFound,
                                  !.port = port, !.actualPort = port ]

NextAdopt ==
    \/ JoinDetect
    \/ \E isReachable \in BOOLEAN : JoinReachable(isReachable)
    \/ \E answer \in Answers, bind \in PromptBinds : JoinLaunchAnswer(answer, bind)
    \/ JoinLaunched
    \/ \E startedByHand \in BOOLEAN : JoinUserReady(startedByHand)
    \/ Connect(FALSE)
    \/ \E err \in ConnectErrors : ConnectFailed(err)

SpecAdopt == InitAdopt /\ [][NextAdopt]_vars

(***************************************************************************)
(* The launch of Chrome on Windows from WSL, in both modes: Chrome binds   *)
(* to either loopback address, early, late or not in time, with stale      *)
(* forwarding rules present, with and without the rights to change them.   *)
(***************************************************************************)
InitProxy ==
    /\ InitSession
    /\ lazyMode = TRUE
    /\ pageUrl = UserPages
    /\ hardTimeout = FALSE
    /\ menu = NoMenu
    /\ httpServer = "listening"
    /\ chromes \in { cs \in Hosts : Running(cs) \subseteq { 1 } }
    /\ portproxy \in RuleSets
    /\ \E elevated \in BOOLEAN, port \in Ports :
           conn = [ NoConn EXCEPT !.isWSL = TRUE, !.chromeFound = TRUE,
                                  !.elevated = elevated,
                                  !.port = port, !.actualPort = port ]

NextProxy ==
    \/ JoinDetect
    \/ \E isReachable \in BOOLEAN : JoinReachable(isReachable)
    \/ \E answer \in Answers, bind \in Binds : JoinLaunchAnswer(answer, bind)
    \/ JoinLaunched
    \/ \E bind \in Binds : OpenDetect(bind)
    \/ \E bind \in Binds : OpenKilled(bind)
    \/ \E ok \in BOOLEAN, bind \in Binds : OpenReachable(ok, bind)
    \/ \E answer \in Answers, ok \in BOOLEAN, bind \in Binds :
           OpenProxyAnswer(answer, ok, bind)

SpecProxy == InitProxy /\ [][NextProxy]_vars

(***************************************************************************)
(* Shutdown: every trigger, during start-up and after it, with and without *)
(* the hard timeout and the HTTP listener.                                 *)
(***************************************************************************)
\* the browser on START_PORT is a managed one or the operator's own; a second
\* managed instance may run beside it
ShutdownHosts ==
    { [ pid \in Pids |-> IF pid = 1 THEN Chrome(TRUE, marker, marker, START_PORT)
                         ELSE IF pid = 2 THEN other
                         ELSE NoChrome ] :
        marker \in BOOLEAN,
        other \in { NoChrome, Chrome(TRUE, TRUE, FALSE, NoPort) } }

InitShutdown ==
    /\ InitSession
    /\ chromes \in ShutdownHosts
    /\ portproxy = {}
    /\ conn = Connecting
    /\ pageUrl = UserPages
    /\ lazyMode = TRUE
    /\ hardTimeout \in BOOLEAN
    /\ menu = NoMenu
    /\ httpServer \in { "none", "listening" }

\* one tab is open and none opens: the loop over browser.pages() finds no
\* page to close
NextShutdown ==
    \/ \E windows \in BOOLEAN : Connect(windows)
    \/ JoinInitialPages
    \/ OpenInitialPage
    \/ PageLoaded
    \/ ListTabsToClose
    \/ OpenReady
    \/ HttpDump
    \/ \E i \in 1..MaxPending : DumpArtifact(i)
    \/ \E i \in 1..MaxPending : HttpDumpDone(i)
    \/ ShutdownSteps

SpecShutdown == InitShutdown /\ [][NextShutdown]_vars

\* The event loop runs every callback that is ready: the timer's, the
\* continuation of a /dump once the page has answered, and the continuations
\* of cleanup() once the listener, or the browser, has closed.
\* Nothing makes a client end its connection.
FairShutdown ==
    /\ SpecShutdown
    /\ WF_vars(HardTimeoutFires)
    /\ WF_vars(HttpClosed)
    /\ WF_vars(BrowserClosed)
    /\ WF_vars(\E i \in 1..MaxPending : DumpArtifact(i))
    /\ WF_vars(\E i \in 1..MaxPending : HttpDumpDone(i))

(***************************************************************************)
(* Properties of the monitored page and its subscriptions.                 *)
(***************************************************************************)
Monitored == Range(monitoredPages)

\* an event of a page that is not the monitored one
StrayEvent ==
    \/ \E p \in Pages \ Monitored :
          ConsoleEvent(p, "plain") \/ RequestEvent(p, RequestData)
    \/ \E x \in inflight : x.page \notin Monitored /\ ResponseEvent(x, ResponseData)

Rank(effect) ==
    CASE effect = "http" -> 1
      [] effect \in { "disconnect", "close", "kill" } -> 2
      [] effect = "exit" -> 3

InOrder(effects) ==
    /\ \A i, j \in 1..Len(effects) : i < j => Rank(effects[i]) <= Rank(effects[j])
    /\ \A i, j \in 1..Len(effects) :
          i < j /\ effects[i] = effects[j] => FALSE

\* C3: whatever shutdown triggers occur, the body of cleanup() runs at most
\* once; the HTTP listener is closed before the browser handle is
\* disconnected or closed, and that happens before the process exits.
ShutdownOnceInOrder ==
    /\ shutdown.runs <= 1
    /\ InOrder(shutdown.effects)
    /\ shutdown.pc = "exited" =>
          /\ shutdown.effects[Len(shutdown.effects)] = "exit"
          /\ httpServer # "none" => shutdown.effects[1] = "http"
          /\ browser => \E i \in 1..Len(shutdown.effects) :
                           shutdown.effects[i] \in { "disconnect", "close" }

\* C3 witness: the process has exited through 'k' (listener closed, browser
\* closed, exit) although the hard timeout fired as well.
ExitedAfterTwoTriggers ==
    /\ shutdown.pc = "exited"
    /\ shutdown.runs = 1
    /\ timerFired
    /\ shutdown.closeBrowser
    /\ shutdown.effects = << "http", "close", "exit" >>

\* C4 as claimed: once the hard timeout has elapsed the process terminates.
HardTimeoutTerminates == timerFired ~> (shutdown.pc = "exited")

(***************************************************************************)
(* Properties of the pause flag.                                           *)
(***************************************************************************)
\* C10: the session starts capturing, and a step changes the paused flag
\* only when it is the toggle-pause key or the HTTP stop or start command.
PausedOnlyByCommand ==
    /\ ~collectingPaused
    /\ [][collectingPaused' # collectingPaused => KeyP \/ HttpStop \/ HttpStart]_vars

\* C10 witness: capture is paused, and a dump and a tab switch have run.
PausedAmongCommands ==
    /\ collectingPaused
    /\ lastDump # NoDump
    /\ Len(SelectSeq(consoleLog, isSwitchTitle)) > 0

(***************************************************************************)
(* Properties of the exchange ids.                                         *)
(***************************************************************************)
\* the number an id reads as: parseInt(id, 10)
RECURSIVE IdValue(_)
IdValue(id) ==
    IF id = << >> THEN 0
    ELSE 10 * IdValue(SubSeq(id, 1, Len(id) - 1)) + id[Len(id)]

RequestStart == \E p \in Pages : RequestEvent(p, RequestData)

Clear == KeyC \/ HttpClear

requestCounter == logBuffer.requestCounter

\* what a step may do to the counter
CounterStep ==
    /\ hist'.issued # hist.issued =>
          /\ requestCounter' = requestCounter + 1
          /\ IdValue(hist'.issued[Len(hist'.issued)]) = requestCounter'
          /\ networkLog'[Len(networkLog')].id = hist'.issued[Len(hist'.issued)]
    /\ Clear => requestCounter' = 0
    /\ requestCounter' # requestCounter =>
          \/ RequestStart /\ requestCounter' = requestCounter + 1
          \/ Clear

\* C5: the ids issued since the latest clear are strictly increasing; a
\* recorded request-start raises the counter by exactly one and takes the
\* new value as its id; a clear sets the counter to zero, and no other step
\* (dump, pause, tab switch, console event) changes the counter.
IdsIncreaseUntilClear ==
    /\ [](\A i, j \in 1..Len(hist.sinceClear) :
            i < j => IdValue(hist.sinceClear[i]) < IdValue(hist.sinceClear[j]))
    /\ [][CounterStep]_vars

\* C5 witness: two request-starts since a clear, after an earlier exchange.
TwoIdsAfterClear ==
    /\ hist.sinceClear = << << 0, 0, 1 >>, << 0, 0, 2 >> >>
    /\ requestCounter = 2
    /\ lastDump # NoDump
    /\ Len(SelectSeq(networkLog, isSwitchTitle)) > 0

\* C6 as claimed: no two exchanges of one session are assigned the same id.
IdsUniqueInSession ==
    \A i, j \in 1..Len(hist.issued) : i # j => hist.issued[i] # hist.issued[j]

\* C6 as amended: no two exchanges started since the latest clear (or since
\* the start of the session, before any clear) are assigned the same id.
IdsUniqueUntilClear ==
    /\ \A i, j \in 1..Len(hist.sinceClear) :
          i # j => hist.sinceClear[i] # hist.sinceClear[j]
    /\ lazyMode =>
          \A i, j \in 1..Len(logBuffer.networkBuffer) :
             /\ i # j
             /\ isRequestLine(logBuffer.networkBuffer[i])
             /\ isRequestLine(logBuffer.networkBuffer[j])
             => logBuffer.networkBuffer[i].id # logBuffer.networkBuffer[j].id

\* C6 witness: two exchanges since the latest clear, each with its own id.
TwoExchangesSinceClear ==
    /\ Len(hist.sinceClear) = 2
    /\ lazyMode
    /\ Len(SelectSeq(logBuffer.networkBuffer, isRequestLine)) = 2
    /\ Cardinality(DOMAIN logBuffer.requestDetails) = 2

(***************************************************************************)
(* Properties of the exchange records.                                     *)
(***************************************************************************)
\* record.key as JavaScript and JSON read it: an absent key is undefined
Lookup(rec, k) == IF k \in DOMAIN rec THEN rec[k] ELSE Undefined

\* the value the right-biased union of the maps gives the key: that of the
\* last map that supplies it
Supplied(maps, k) ==
    LET suppliers == { i \in 1..Len(maps) : k \in DOMAIN maps[i] }
        last == CHOOSE i \in suppliers : \A j \in suppliers : j <= i
    IN IF suppliers = {} THEN Undefined ELSE maps[last][k]

\* the records the LogBuffer stores: in memory (lazy) or as files (realtime)
storedRecords == IF lazyMode THEN logBuffer.requestDetails ELSE logBuffer.NETWORK_DIR

\* C7: the record stored for an exchange reads, key by key, as the
\* right-biased union of the field maps supplied for it, the request-start
\* first and the updates in their order of arrival, in lazy and in realtime
\* mode.
RecordIsUnionOfSupplied ==
    \A id \in DOMAIN hist.supplied :
       /\ id \in DOMAIN storedRecords
       /\ \A k \in FieldKeys :
             Lookup(storedRecords[id], k) = Supplied(hist.supplied[id], k)
       /\ DOMAIN storedRecords[id] \subseteq
             UNION { DOMAIN hist.supplied[id][i] : i \in 1..Len(hist.supplied[id]) }

\* C7 witness: a request-start and two updates; the second update overrides
\* a key of the first and an earlier key survives both.
MergedThreeMaps ==
    \E id \in DOMAIN hist.supplied :
       /\ Len(hist.supplied[id]) = 3
       /\ hist.supplied[id][1] = [ url |-> "v1" ]
       /\ hist.supplied[id][2] = [ status |-> "v1" ]
       /\ hist.supplied[id][3] = [ status |-> "v2" ]
       /\ id \in DOMAIN storedRecords
       /\ storedRecords[id] = [ url |-> "v1", status |-> "v2" ]

(***************************************************************************)
(* Properties of dump and clear.                                           *)
(***************************************************************************)
\* the exchange ids a dump's artifacts refer to
dumpedIds(dump) ==
    { dump.network[i].id : i \in { n \in 1..Len(dump.network) :
                                    isRequestLine(dump.network[n]) } }
       \cup DOMAIN dump.files

\* C8: a dump that runs after a clear with no browser event in between
\* writes no network summary line and no exchange file of an id issued
\* before that clear.
DumpAfterClearIsFresh ==
    hist.afterClear = "dump" => dumpedIds(lastDump) \cap hist.preClear = {}

\* C8 witness: exchanges were recorded and dumped, then cleared, and a dump
\* ran right after the clear, in lazy mode.
DumpedRightAfterClear ==
    /\ hist.afterClear = "dump"
    /\ hist.preClear # {}
    /\ lazyMode
    /\ DOMAIN logBuffer.NETWORK_DIR # {}

Dump ==
    \/ KeyD
    \/ HttpDump
    \/ \E i \in 1..MaxPending : KeyDumpDone(i) \/ HttpDumpDone(i)

memory ==
    << logBuffer.consoleBuffer, logBuffer.networkBuffer, logBuffer.requestDetails,
       logBuffer.requestCounter >>

Emptied ==
    \/ Len(logBuffer'.consoleBuffer) < Len(logBuffer.consoleBuffer)
    \/ Len(logBuffer'.networkBuffer) < Len(logBuffer.networkBuffer)
    \/ ~(DOMAIN logBuffer.requestDetails \subseteq DOMAIN logBuffer'.requestDetails)
    \/ logBuffer'.requestCounter < logBuffer.requestCounter

Occurs(pattern, text) ==
    \E i \in 1..(Len(text) + 1) : \E j \in (i - 1)..Len(text) :
        SubSeq(text, i, j) = pattern

MatchesAny(patterns, message) ==
    \E k \in 1..Len(patterns) : Occurs(patterns[k], MessageText[message])

Admitted(message) ==
    /\ ~collectingPaused
    /\ ~MatchesAny(logBuffer.ignorePatterns, message)

\* C11: a console event of the subscribed page is appended to the console
\* sequence exactly when capture is not paused and its text contains none of
\* the ignore patterns (built-in and configured); otherwise the sequence
\* stays as it was.  A message with a hot-reload pattern and no ignore
\* pattern is appended like any other.
ConsoleFiltered ==
    [][\A p \in Pages, message \in MessageKinds :
          ConsoleEvent(p, message) =>
              IF p \in listeners /\ Admitted(message)
              THEN consoleLog' = Append(consoleLog, ConsoleLine(message))
              ELSE consoleLog' = consoleLog]_vars

\* C11 witness: with configured patterns, a hot-reload message has been
\* recorded and capture is paused afterwards with the line still alone.
HmrRecordedThenPaused ==
    /\ Len(logBuffer.ignorePatterns) > Len(DEFAULT_IGNORE_PATTERNS)
    /\ consoleLog = << ConsoleLine("hmr") >>
    /\ MatchesAny(HMR_PATTERNS, "hmr")
    /\ collectingPaused
    /\ Cardinality(openPages) = 2

(***************************************************************************)
(* Properties of the host: which browser instances the system terminates.  *)
(***************************************************************************)
\* the instances a step terminates
Terminated == { pid \in Pids : chromes[pid].alive /\ ~chromes'[pid].alive }

\* C12: every step that terminates a browser instance terminates only
\* instances whose command line carries the managed-profile marker.
OnlyManagedTerminated ==
    [][\A pid \in Terminated : chromes[pid].marker]_vars

(***************************************************************************)
(* Properties of the connection phase.                                     *)
(***************************************************************************)
Last(seq) == seq[Len(seq)]

\* the control connection was attempted and is not open
ConnectionFailed ==
    /\ ~browser
    /\ conn.target = NoPid
    /\ conn.trace # << >>
    /\ Last(conn.trace) \in { "probe", "connect" }

AfterFailure == conn.pc \in { "diagnostics", "askFix" }

HostChanged == chromes' # chromes \/ portproxy' # portproxy

\* C13: the steps of the automatic fix are taken only at its prompt, after a
\* failed connection whose diagnostics reported hasPortProxyConflict, when
\* the operator's answer is yes; once the connection has failed, no other
\* step deletes a forwarding rule or terminates a browser.
FixOnlyWhenConfirmed ==
    [][/\ conn'.fix # conn.fix =>
            /\ conn.pc = "askFix"
            /\ ConnectionFailed
            /\ conn.diag.ran /\ conn.diag.hasPortProxyConflict
            /\ askYesNo(conn'.answer)
       /\ AfterFailure /\ HostChanged => conn'.fix # << >>
       /\ conn.pc = "askFix" /\ ~askYesNo(conn'.answer) =>
            ~HostChanged /\ conn'.fix = << >>]_vars

\* C13 witness: the fix was offered after a failed connection and applied
\* on the answer yes, and it removed a rule and stopped a managed browser.
FixAppliedOnYes ==
    /\ conn.pc = "exited"
    /\ conn.diag.hasPortProxyConflict
    /\ conn.answer = "y"
    /\ conn.fix # << >>
    /\ conn.killed # {}
    /\ RulesFor(fixPort) = {}

CrossHostOpen == mode = "open" /\ conn.isWSL

Count(seq, x) == Cardinality({ i \in 1..Len(seq) : seq[i] = x })

\* every attempt is a wait, then a probe, then possibly the connection
AttemptsInOrder(trace) ==
    \A i \in 1..Len(trace) :
        /\ trace[i] = "wait" => i = 1 \/ trace[i - 1] \in { "probe", "connect" }
        /\ trace[i] = "probe" => i > 1 /\ trace[i - 1] = "wait"
        /\ trace[i] = "connect" => i > 1 /\ trace[i - 1] = "probe"

AllAttemptsFailed ==
    /\ Count(conn.trace, "wait") = MAX_RETRIES
    /\ conn.pc \notin { "probe", "connect" }
    /\ ~browser

DiagnosticsEntered == conn.pc \in { "diagnostics", "askFix" } \/ conn.diag.ran

\* C14: in open mode in WSL at most MAX_RETRIES attempts are made, each after
\* a wait of RETRY_DELAY ms and beginning with a probe of /json/version;
\* nothing follows the first successful connection; the diagnostics are
\* entered exactly when all MAX_RETRIES attempts have failed.
RetriesThenDiagnostics ==
    CrossHostOpen =>
        /\ Count(conn.trace, "wait") <= MAX_RETRIES
        /\ conn.attempt = Count(conn.trace, "wait")
        /\ conn.waited = RETRY_DELAY * Count(conn.trace, "wait")
        /\ AttemptsInOrder(conn.trace)
        /\ browser => /\ Last(conn.trace) = "connect"
                      /\ Count(conn.trace, "connect") = Count(conn.trace, "wait")
                         - Cardinality({ i \in 1..(Len(conn.trace) - 1) :
                               conn.trace[i] = "probe" /\ conn.trace[i + 1] = "wait" })
        /\ DiagnosticsEntered <=> AllAttemptsFailed

\* C14 witness: the diagnostics run after five failed attempts, of which one
\* failed at its probe and one at the connection.
DiagnosticsAfterFiveAttempts ==
    /\ CrossHostOpen
    /\ conn.pc = "diagnostics"
    /\ Count(conn.trace, "wait") = MAX_RETRIES
    /\ Count(conn.trace, "connect") \in 1..(MAX_RETRIES - 1)

\* the connection attempts that have ended in a failure: a probe that got no
\* response, or a connection that was rejected
FailedAttempts ==
    Cardinality({ i \in 1..Len(conn.trace) :
        \/ conn.trace[i] = "connect" /\ ~(i = Len(conn.trace) /\ browser)
        \/ /\ conn.trace[i] = "probe"
           /\ i < Len(conn.trace) => conn.trace[i + 1] # "connect"
           /\ i = Len(conn.trace) => conn.pc # "connect" })

\* C15: in join mode as in open mode, the diagnostics are entered only after
\* the initial connection has been attempted MAX_RETRIES times.
RetriedInEveryMode ==
    DiagnosticsEntered => FailedAttempts = MAX_RETRIES

\* C16: in join mode with a browser listening on the requested port, the
\* control connection is opened to that browser on that port, whatever its
\* profile, also in WSL.
JoinsRequestedPort ==
    /\ mode = "join"
    /\ listener(chromes, conn.port) # NoPid
    /\ conn.pc \in { "connect", "connected" }
    => /\ conn.actualPort = conn.port
       /\ conn.pc = "connected" => conn.target = listener(chromes, conn.port)

(***************************************************************************)
(* Properties of the exit type.                                            *)
(***************************************************************************)
Has(seq, x) == \E i \in 1..Len(seq) : seq[i] = x

FirstId == << 0, 0, 1 >>

\* C18: a clear leaves the console buffer, the network buffer and the map of
\* exchange records empty and the counter at zero, and the request-start
\* recorded next after a clear is given the id 001.
ClearResetsAll ==
    [][/\ Clear => /\ logBuffer'.consoleBuffer = << >>
                   /\ logBuffer'.networkBuffer = << >>
                   /\ logBuffer'.requestDetails = EmptyRecord
                   /\ logBuffer'.requestCounter = 0
       /\ hist.sinceClear = << >> /\ hist'.issued # hist.issued =>
            /\ Last(hist'.issued) = FirstId
            /\ Last(networkLog').id = FirstId
            /\ FirstId \in DOMAIN storedRecords']_vars

\* C18 witness: exchanges were recorded, the buffers were cleared, and the
\* one exchange started since has the id 001 again.
FirstIdAfterClear ==
    /\ Len(hist.issued) >= 2
    /\ hist.preClear # {}
    /\ hist.sinceClear = << FirstId >>
    /\ requestCounter = 1

\* C19: in realtime mode a clear leaves the console log file empty and the
\* directory of exchange files empty.
RealtimeClearWipesDisk ==
    [][Clear /\ ~lazyMode =>
          /\ logBuffer'.CONSOLE_LOG = << >>
          /\ logBuffer'.NETWORK_DIR = EmptyRecord]_vars

\* C20: once the automatic fix has been reported as applied, no forwarding
\* rule of either type is left for the port and no managed browser instance
\* is running.
FixLeavesNothing ==
    conn.fix # << >> =>
        /\ RulesFor(fixPort) = {}
        /\ puppeteerMonitorPids(chromes) = {}

(***************************************************************************)
(* Properties of the scan of the host.                                     *)
(***************************************************************************)
\* the match by tiers over the whole list: exact, else legacy, else the
\* first instance bound to 0.0.0.0, else the first instance
findProjectChromeByTier(cs, instances) ==
    LET exact == { i \in 1..Len(instances) : isExact(cs[instances[i]].profile) }
        legacy == { i \in 1..Len(instances) : isLegacy(cs[instances[i]].profile) }
        accessible == { i \in 1..Len(instances) :
                          cs[instances[i]].bindAddress = "0.0.0.0" }
    IN IF Len(instances) = 0 THEN NoMatch
       ELSE IF exact # {} THEN Match(TRUE, instances[First(exact)], "exact")
       ELSE IF legacy # {} THEN Match(TRUE, instances[First(legacy)], "legacy")
       ELSE IF accessible # {}
            THEN Match(FALSE, instances[First(accessible)], "accessible")
       ELSE Match(FALSE, instances[1], "first")

\* C21: the match that join mode obtains from findProjectChrome is the one of
\* the highest tier present in the list of instances, and no instance for
\* an empty list.
HighestTierMatched ==
    [][conn.pc = "start" /\ conn'.pc # "start" /\ conn.isWSL /\ mode = "join" =>
          conn'.match = findProjectChromeByTier(chromes, scanChromeInstances(chromes))]_vars

(***************************************************************************)
(* Properties of the launch on Windows.                                    *)
(***************************************************************************)
\* the step launches Chrome and sets up its forwarding rule
Launched == conn'.bind # conn.bind

DetectedInTime == conn'.bind.readyAt <= MAX_POLLS

MatchingType == IF conn'.bind.chromeBindAddress = "::1" THEN "v4tov6" ELSE "v4tov4"

RulesAfter == { r \in portproxy' : r.port = conn'.actualPort }

\* the polling of the bind address at a launch
PolledUntilDetected ==
    /\ conn'.bind.polls \in 1..MAX_POLLS
    /\ conn'.bind.waited = POLL_DELAY * conn'.bind.polls
    /\ conn'.bind.polls = IF DetectedInTime THEN conn'.bind.readyAt ELSE MAX_POLLS
    /\ conn'.bind.chromeBindAddress =
          IF DetectedInTime THEN conn'.bind.address ELSE "127.0.0.1"

\* setting the rule up again, with the same address detected, changes nothing
SetUpAgain ==
    proxied(portproxy', conn'.actualPort, MatchingType, conn.elevated) = portproxy'

UserTabs ==
    LET users == { p \in openPages : pageUrl[p] \notin { "chrome", "devtools", "extension" } }
        nonBlank == { p \in users : pageUrl[p] # "blank" }
    IN IF nonBlank # {} THEN nonBlank ELSE users

\* the page at position i of the listing, in the order the browser found them
TabAt(i) == CHOOSE p \in UserTabs : Cardinality({ q \in UserTabs : q < p }) = i - 1

\* C23: GET /tabs lists the user pages with the indices 1..n in discovery
\* order, and GET /tab?index=i with 1 <= i <= n, on the same open pages, makes
\* the page listed at i the only monitored and the only subscribed page.
ListedPageSwitched ==
    [][ /\ browser =>
            /\ DOMAIN getAllTabs = 1..Cardinality(UserTabs)
            /\ \A i \in DOMAIN getAllTabs :
                   /\ getAllTabs[i].index = i
                   /\ getAllTabs[i].url = pageUrl[TabAt(i)]
        /\ \A i \in 1..Len(pending) :
               ( /\ pending[i].kind = "httpSwitch"
                 /\ pending[i].index \in 1..Cardinality(UserTabs)
                 /\ HttpSwitchPages(i) )
               => /\ monitoredPages' = << TabAt(pending[i].index) >>
                  /\ listeners' = { TabAt(pending[i].index) } ]_vars

\* index 1 of the listing is the second tab, the first being blank, and the
\* switch to it has happened
SwitchedPastBlank ==
    /\ openPages = { 1, 2 }
    /\ pageUrl[1] = "blank"
    /\ pageUrl[2] = "user"
    /\ monitoredPages = << 2 >>
    /\ listeners = { 2 }
    /\ Len(SelectSeq(consoleLog, isSwitchTitle)) > 0


isInternal(p) == pageUrl[p] \in { "chrome", "devtools", "extension" }

\* what a page listing is to be: never empty on a browser with a page, free
\* of internal pages when another page is open, and without a blank page only
\* when it shows a page that is not blank
Listed(pages) ==
    /\ Len(pages) > 0
    /\ (\E p \in openPages : ~isInternal(p)) =>
           \A i \in 1..Len(pages) : ~isInternal(pages[i])
    /\ (\E p \in openPages : ~isInternal(p) /\ isBlank(p) /\ p \notin Range(pages)) =>
           \E i \in 1..Len(pages) : ~isBlank(pages[i])

\* C24: every page listing (the initial selection, GET /tabs, the keyboard
\* and the HTTP tab switch) removes the internal, developer-tool and extension
\* pages, falls back to the unfiltered list when the filter leaves nothing of
\* a browser that has a page, and drops blank pages only when a non-blank
\* candidate exists.
ListingsFilterAndFallBack ==
    (browser /\ openPages # {}) =>
        /\ Listed(initialCandidates)
        /\ Listed(switchCandidates)
        /\ Len(getAllTabs) = Len(switchCandidates)

\* C25: POST /puppeteer calls a page method only when its name is in the
\* whitelist; with any other name nothing is called and neither the page nor
\* the session changes.
OnlyWhitelistedCalled ==
    [][ /\ hist'.called \subseteq PUPPETEER_WHITELIST
        /\ \A method \in Methods \ PUPPETEER_WHITELIST :
               HttpPuppeteer(method) => UNCHANGED vars ]_vars

\* a page command of the whitelist has run on the monitored page, and the
\* session goes on
CalledGoto ==
    /\ "goto" \in hist.called
    /\ Len(monitoredPages) > 0
    /\ pageUrl[monitoredPages[1]] = "user"
    /\ Alive

\* the session state an uncaught error is to leave alone
captureState == << collectingPaused, monitoredPages, listeners, logBuffer >>

Transient == { "Execution context was destroyed", "Target closed", "Protocol error" }

transientIgnored ==
    \A msg \in Transient : UncaughtException(msg) => UNCHANGED vars

KeysHandledOnceReady == (mainPc = "ready" /\ Alive) => keyboard

\* the ports that instances with a debug port use, and the free ones of the
\* PORT_RANGE ports from startPort on
usedPortsOf(cs) == { cs[pid].port : pid \in { q \in Running(cs) : cs[q].port # NoPort } }

freeFrom(cs, startPort) == (startPort..(startPort + PORT_RANGE - 1)) \ usedPortsOf(cs)

portChosen == conn.pc = "start" /\ conn'.pc \in { "askLaunch", "waitUser" }

\* C28: findFreeDebugPort(instances, startPort) is the smallest port of
\* startPort..startPort+99 that no discovered instance uses; only when every
\* port of that range is used it is startPort, a used port.
SmallestFreePort ==
    [][ portChosen =>
          IF freeFrom(chromes, conn.port) # {}
          THEN /\ conn'.actualPort \in freeFrom(chromes, conn.port)
               /\ \A port \in freeFrom(chromes, conn.port) : conn'.actualPort <= port
          ELSE /\ conn'.actualPort = conn.port
               /\ conn.port \in usedPortsOf(chromes) ]_vars

\* every port of the range is in use and the port chosen is the first one
WholeRangeUsed ==
    /\ conn.pc \in { "askLaunch", "waitUser" }
    /\ freeFrom(chromes, conn.port) = {}
    /\ conn.actualPort = conn.port
    /\ listener(chromes, conn.actualPort) # NoPid

\* a command of the control plane runs to its end
keyCompleted ==
    \/ KeyC
    \/ KeyP
    \/ \E i \in 1..MaxPending : KeyDumpDone(i) \/ KeyStatusDone(i)
    \/ \E i \in 1..MaxPending, choice \in 0..NumPages : KbdSwitchAnswer(i, choice)

httpCompleted ==
    \/ HttpClear
    \/ HttpStop
    \/ HttpStart
    \/ \E i \in 1..MaxPending : HttpDumpDone(i) \/ HttpSwitchPages(i)

\* the reminder is printed in this step
reminderEmitted == outputCounter' # outputCounter /\ reminderShown(outputCounter')

\* C29: every completed command of the control plane (dump, clear, status,
\* pause, switch) is counted, nothing else is, and the reminder is printed
\* exactly in the steps in which the count reaches a positive multiple of 5.
ReminderEveryFiveCommands ==
    [][ /\ (keyCompleted \/ httpCompleted) => outputCounter' = outputCounter + 1
        /\ outputCounter' # outputCounter => outputCounter' = outputCounter + 1
        /\ reminderEmitted <=>
               /\ outputCounter' # outputCounter
               /\ \E k \in 1..3 : outputCounter' = k * HELP_INTERVAL ]_vars

\* the ids of the exchanges recorded, in memory and as file names
recordedIds == (DOMAIN logBuffer.requestDetails) \cup (DOMAIN logBuffer.NETWORK_DIR)

RECURSIVE Value(_)
Value(id) == IF id = << >> THEN 0 ELSE 10 * Value(SubSeq(id, 1, Len(id) - 1)) + id[Len(id)]

\* C30 as stated: every exchange id, and with it every file name, has exactly
\* three decimal digits, however many requests came before.
ThreeDigitIds ==
    \A id \in recordedIds :
        /\ Len(id) = ID_WIDTH
        /\ \A i \in 1..Len(id) : id[i] \in 0..9

\* C30: every exchange id, and with it every file name, is the decimal
\* numeral of the request's number since the start or the latest clear,
\* filled with zeros on the left to three digits: three digits up to request
\* 999, and as many as the numeral has from request 1000 on.
PaddedIds ==
    \A id \in recordedIds :
        /\ \A i \in 1..Len(id) : id[i] \in 0..9
        /\ Value(id) \in 1..logBuffer.requestCounter
        /\ Len(id) >= ID_WIDTH
        /\ Len(id) > ID_WIDTH => id[1] # 0

\* the request after 999 others has been recorded
FourDigitId ==
    /\ logBuffer.requestCounter = 1000
    /\ << 1, 0, 0, 0 >> \in recordedIds
    /\ << 9, 9, 9 >> \in recordedIds
    /\ << 0, 0, 1 >> \in recordedIds

\* C31: from the interactive menu at most one monitoring mode is started in
\* a process, whatever keys are pressed while a join flow scans, waits for
\* Chrome or asks for the instance.
AtMostOneModeStarted == Len(menu.started) <= 1

selecting == \E i \in 1..Len(menu.flows) : menu.flows[i] = "select"

\* C34: q at the 'Select Chrome instance' prompt only cancels the selection:
\* no mode is started and the process goes on at the menu.
QuitKeyOnlyCancels ==
    [][ (selecting /\ MenuKey("q")) =>
            /\ ~menu'.exited
            /\ Alive'
            /\ menu'.started = menu.started
            /\ menu'.listening = menu.listening ]_vars


\* C32: the cookies, the DOM snapshot and the screenshot of one dump are read
\* from the same page, also when a switch-page command of the other command
\* source is processed while the dump is suspended between two artifacts.
DumpReadsOnePage ==
    \A i \in 1..Len(pending) :
        isDumpJob(pending[i]) =>
            \A a, b \in 1..Len(pending[i].pages) :
                pending[i].pages[a] = pending[i].pages[b]

\* the exchange records kept in memory, or in the files of the network directory
storedDetails == IF lazyMode THEN logBuffer.requestDetails ELSE logBuffer.NETWORK_DIR

startedSinceClear(id) == \E i \in 1..Len(hist.sinceClear) : hist.sinceClear[i] = id

\* the response or the failure of the request x arrives in this step
lateUpdate(x) ==
    /\ x.stale
    /\ ResponseEvent(x, ResponseData) \/ FailureEvent(x, FailureData)

\* C33: the response or failure of a request that was in flight when a clear
\* happened is never merged into, nor stored under the id of, an exchange
\* started after that clear.
LateUpdateKeptApart ==
    [][ \A x \in inflight :
            lateUpdate(x) /\ startedSinceClear(x.id) => storedDetails' = storedDetails ]_vars

\* the lines a switch writes to a log
switchMark == << SeparatorLine, TitleLine("TAB SWITCHED"), SeparatorLine >>

grown(old, new) == Len(new) > Len(old)

switchCompleted ==
    \/ \E i \in 1..MaxPending, choice \in 0..NumPages : KbdSwitchAnswer(i, choice)
    \/ \E i \in 1..MaxPending : HttpSwitchPages(i)

DiagnosticsOnAttemptedPort ==
    /\ conn.pc = "diagnostics" => diagnosedPort = conn.actualPort
    /\ conn.pc = "askFix" => fixPort = conn.actualPort

\* the monitored page, its subscriptions, the pause flag and the buffers
capture == << page, monitoredPages, activePageCleanup, listeners, collectingPaused,
             logBuffer >>

\* C37: a switch-page command issued before a browser is connected, or with
\* an index outside 1..n (n the pages listed), returns a failure and leaves
\* the monitored page, its subscriptions, the pause flag and the buffers
\* unchanged; with an index in 1..n it succeeds.
FailedSwitchChangesNothing ==
    [][ /\ \A index \in 0..(NumPages + 1) :
              HttpSwitch(index) /\ ~browser =>
                  /\ hist'.reply \in { "Browser not connected", "Browser not ready" }
                  /\ capture' = capture
        /\ \A i \in 1..MaxPending :
              HttpSwitchPages(i) =>
                  IF pending[i].index \in 1..Len(switchCandidates)
                  THEN hist'.reply = "success"
                  ELSE hist'.reply = "Invalid index" /\ capture' = capture ]_vars

\* C37 witness: a paused session with a recorded console line has answered
\* a switch to an index past the last listed page with a failure
SwitchRefused ==
    /\ hist.reply = "Invalid index"
    /\ collectingPaused
    /\ monitoredPages # << >>
    /\ \E k \in 1..Len(consoleLog) : isConsoleLine(consoleLog[k])
    /\ pending = << >>

promptPending == \E i \in 1..Len(pending) : pending[i].kind = "kbdPrompt"

\* a command of the main key handler other than Ctrl+C starts in this step
keyCommand == KeyD \/ KeyC \/ KeyP \/ KeyS \/ KeyT \/ KeyQ \/ KeyK

\* switchTabs() finishes in this step: by selection or cancellation, by error
switchTabsFinished ==
    \E i \in 1..MaxOverlap :
        \/ \E choice \in 0..NumPages : KbdSwitchAnswer(i, choice)
        \/ KbdSwitchFailed(i)

\* C38: the tab-selection flag is set only while a tab prompt is pending;
\* when switchTabs finishes by selection, cancellation or error the flag is
\* false; and while the flag is set the main key handler starts no command
\* other than Ctrl+C.
FlagOnlyWhilePrompting ==
    /\ [](isSelectingTab => promptPending)
    /\ [][ switchTabsFinished => ~isSelectingTab' ]_vars
    /\ [][ isSelectingTab => ~keyCommand ]_vars

\* C38 witness: the flag is set for a pending prompt, a dump started before
\* is still waiting, and Ctrl+C has started the shutdown
PromptingAtCtrlC ==
    /\ isSelectingTab
    /\ promptPending
    /\ \E i \in 1..Len(pending) : pending[i].kind = "kbdDump"
    /\ cleanupDone

\* C39: in join mode in WSL the port of a discovered instance is adopted
\* only when the instance matched at the tier exact or legacy; the instance
\* that findProjectChrome returns at the tier accessible or first is never
\* the one the monitor connects to.
FallbackNeverJoined ==
    /\ conn.pc = "connected"
    /\ mode = "join"
    /\ conn.match.matchType \in { "accessible", "first" }
    /\ conn.match.instance \notin conn.killed
    => conn.target # conn.match.instance

\* C40: open mode never closes the page it monitors: tabs are closed only
\* after the navigation of the monitored page has completed, every other open
\* page is closed at that point, and the monitored page is still open then.
OpenKeepsOnlyMonitored ==
    /\ [][ mode = "open" => \A p \in Range(monitoredPages) :
                                p \in openPages => p \in openPages' ]_vars
    /\ [][ mode = "open" /\ ~(openPages \subseteq openPages') => mainPc = "closing" ]_vars
    /\ [][ mode = "open" /\ mainPc = "closing" /\ mainPc' = "ready" =>
                openPages' = Range(monitoredPages') ]_vars

====
